---- MODULE Spec2Model ----
(***************************************************************************)
(* Model of the dimension-reducer service                                  *)
(* (src/py-services/dimension-reducer/app.py).                             *)
(*                                                                         *)
(* A handler runs to completion once started: the handlers are "async def" *)
(* coroutines that await nothing but each other, so the event loop never   *)
(* switches to another request inside one.                                 *)
(* The state is the three library-availability flags probed at import      *)
(* time, the request in flight (as received and as the handler left it),   *)
(* the endpoint that serves it, the response, and the log of calls made to *)
(* the numerical libraries.  memo is what a client kept of an earlier      *)
(* exchange; inbox and outbox are the requests and responses of clients    *)
(* that have several requests in flight at once.                           *)
(*                                                                         *)
(* Optional values: None is <<>>, a present value v is <<v>>.              *)
(* Floats with one decimal are counted in tenths (0.8 is 8, 3.0 is 30).    *)
(***************************************************************************)
EXTENDS Integers, Sequences, FiniteSets, TLC

VARIABLES UMAP_AVAILABLE, SKLEARN_AVAILABLE, CLOUDPICKLE_AVAILABLE,
          pc, endpoint, received, request, response, calls, fitArgs,
          memo, inbox, outbox,
          providers, current_provider, active_requests, boot, task, setCall

vars == <<UMAP_AVAILABLE, SKLEARN_AVAILABLE, CLOUDPICKLE_AVAILABLE,
          pc, endpoint, received, request, response, calls, fitArgs,
          memo, inbox, outbox,
          providers, current_provider, active_requests, boot, task, setCall>>

libs == <<UMAP_AVAILABLE, SKLEARN_AVAILABLE, CLOUDPICKLE_AVAILABLE>>

(* the request in flight and everything the handler produced for it *)
exchange == <<pc, endpoint, received, request, response, calls, fitArgs>>

clients == <<inbox, outbox>>

(* the backend service (src/backend/app.py), a process of its own: its    *)
(* provider registry, the call_llm_provider coroutine in flight, and the  *)
(* last call of set_current_provider with what it returned                *)
backend == <<providers, current_provider, active_requests, boot, task, setCall>>

----------------------------------------------------------------------------
(* Bounds of the model *)

MaxN == 4

MaxDim == 2

MaxNeighbors == 5

(* largest component of a translation, a scale, a rotation axis or a *)
(* coordinate to normalize                                           *)
MaxCoord == 2

(* rows of a coordinate array to normalize *)
MaxRows == 3

(* clients with a request in flight at the same time *)
NumClients == 2

Clients == 1..NumClients

----------------------------------------------------------------------------
(* Optional values and small helpers *)

None == <<>>

Some(v) == <<v>>

IsNone(o) == Len(o) = 0

Get(o) == o[1]

Min(a, b) == IF a < b THEN a ELSE b

Max(a, b) == IF a > b THEN a ELSE b

RECURSIVE SumSeq(_)
SumSeq(s) == IF Len(s) = 0 THEN 0 ELSE Head(s) + SumSeq(Tail(s))

----------------------------------------------------------------------------
(* Program constants *)

DefaultNeighbors == 15

DefaultMinDist == 8

DefaultSpread == 30

DefaultRandomState == 42

(* target_range of _normalize_coordinates *)
DefaultTargetRange == 10

(* The first byte of a pickle: the PROTO opcode *)
PickleHeader == <<128>>

----------------------------------------------------------------------------
(* Requests: DimensionReductionRequest and the values a client may send *)

Methods == {"umap_learning", "linear_transformation", "umap_transform"}

RectVectors(n, d, f) == [i \in 1..n |-> [j \in 1..d |-> (i * f + j) % 2]]

RaggedVectors == { <<<<1>>, <<1, 0>>>>, <<<<0, 1>>, <<>>, <<1, 1>>>> }

(* more vectors than the default n_neighbors asks for *)
ManyVectors == RectVectors(DefaultNeighbors + 2, 1, 1)

VectorInputs ==
    { RectVectors(n, d, f) : n \in 0..MaxN, d \in 0..MaxDim, f \in {0, 1} }
        \cup RaggedVectors \cup {ManyVectors}

(* n_neighbors as sent: an explicit null, a number, or the field's default *)
(* (line 50) when the request leaves it out                               *)
NeighborInputs ==
    {None, Some(DefaultNeighbors)} \cup { Some(k) : k \in 1..MaxNeighbors }

(* min_dist, spread, random_state as sent; None is an explicit JSON null *)
ParamInputs ==
    { [min_dist |-> Some(DefaultMinDist), spread |-> Some(DefaultSpread),
       random_state |-> Some(DefaultRandomState)],
      [min_dist |-> Some(0), spread |-> Some(10), random_state |-> Some(7)],
      [min_dist |-> None, spread |-> None, random_state |-> None],
      [min_dist |-> Some(5), spread |-> Some(1), random_state |-> Some(0)] }

(* fitted_umap_model as sent: absent, empty, not a pickle, not bytes, or *)
(* the bytes of a model fitted earlier with n_components k on d features *)
ModelInputs ==
    {None, Some(<<>>), Some(<<0>>), Some(PickleHeader \o <<300, 1>>)}
        \cup { Some(PickleHeader \o <<k, d>>) : k \in {2, 3}, d \in 1..MaxDim }

MatrixInputs == {None, Some(<<<<1, 0>>, <<0, 1>>>>)}

TargetInputs == {1, 2, 3}

DefaultRequest ==
    [vectors |-> <<>>, method |-> "umap_learning", target_dimensions |-> 3,
     n_neighbors |-> Some(DefaultNeighbors), min_dist |-> Some(DefaultMinDist),
     spread |-> Some(DefaultSpread), random_state |-> Some(DefaultRandomState),
     transformation_matrix |-> None, fitted_umap_model |-> None]

LearningInputs ==
    { [DefaultRequest EXCEPT !.vectors = v, !.target_dimensions = k,
                             !.n_neighbors = nn, !.min_dist = p.min_dist,
                             !.spread = p.spread, !.random_state = p.random_state,
                             !.fitted_umap_model = m] :
        v \in VectorInputs, k \in TargetInputs, nn \in NeighborInputs,
        p \in ParamInputs, m \in {None, Some(PickleHeader \o <<3, 1>>)} }

TransformInputs ==
    { [DefaultRequest EXCEPT !.method = "umap_transform", !.vectors = v,
                             !.target_dimensions = k, !.n_neighbors = nn,
                             !.fitted_umap_model = m] :
        v \in VectorInputs, k \in TargetInputs, nn \in {None, Some(2), Some(15)},
        m \in ModelInputs }

LinearInputs ==
    { [DefaultRequest EXCEPT !.method = "linear_transformation", !.vectors = v,
                             !.target_dimensions = k, !.n_neighbors = nn,
                             !.transformation_matrix = t,
                             !.fitted_umap_model = m] :
        v \in VectorInputs, k \in TargetInputs, nn \in {None, Some(2)},
        t \in MatrixInputs, m \in {None, Some(PickleHeader \o <<3, 2>>)} }

OtherInputs ==
    { [DefaultRequest EXCEPT !.method = "pca", !.vectors = v] : v \in VectorInputs }

RequestInputs == LearningInputs \cup TransformInputs \cup LinearInputs \cup OtherInputs

(* Which library calls raise an exception while this request is handled. *)
(* Only the calls the method's engine can make are varied.                *)
FaultInputs(method) ==
    IF method = "umap_learning"
    THEN [fit : BOOLEAN, ridge : BOOLEAN, dumps : BOOLEAN,
          loads : {FALSE}, transform : {FALSE}]
    ELSE IF method = "umap_transform"
    THEN [fit : {FALSE}, ridge : {FALSE}, dumps : {FALSE},
          loads : BOOLEAN, transform : BOOLEAN]
    ELSE [fit : {FALSE}, ridge : {FALSE}, dumps : {FALSE},
          loads : {FALSE}, transform : {FALSE}]

----------------------------------------------------------------------------
(* Outcomes of a function: a value, an HTTPException, or another         *)
(* exception.  log is the sequence of library calls made, fit the        *)
(* arguments the UMAP reducer was constructed with (None if it was not). *)

Ok(val, log, fit) ==
    [exc |-> "none", status |-> 200, detail |-> <<>>, val |-> val,
     log |-> log, fit |-> fit]

HttpExc(status, detail, log, fit) ==
    [exc |-> "http", status |-> status, detail |-> detail, val |-> <<>>,
     log |-> log, fit |-> fit]

Raise(msg, log, fit) ==
    [exc |-> "error", status |-> 0, detail |-> <<msg>>, val |-> <<>>,
     log |-> log, fit |-> fit]

(* A library call: arg is the byte string exchanged with the serializer *)
(* (the result of dumps, the argument of loads), empty for other calls  *)
CallWith(op, raised, arg) == [op |-> op, raised |-> raised, arg |-> arg]

Call(op, raised) == CallWith(op, raised, <<>>)

(* Python truthiness of an Optional[int] and of an Optional[list] *)
TruthyInt(o) == ~IsNone(o) /\ Get(o) # 0

TruthyList(o) == ~IsNone(o) /\ Len(Get(o)) > 0

----------------------------------------------------------------------------
(* The numerical libraries, as far as the service depends on them *)

(* np.array(vectors, dtype=float32): ValueError on a ragged list *)
IsRectangular(v) == \A i, j \in 1..Len(v) : Len(v[i]) = Len(v[j])

NpArray(v) ==
    IF IsRectangular(v)
    THEN [raised |-> FALSE, ndim |-> IF Len(v) = 0 THEN 1 ELSE 2,
          shape |-> <<Len(v), IF Len(v) = 0 THEN 0 ELSE Len(v[1])>>, data |-> v]
    ELSE [raised |-> TRUE, ndim |-> 0, shape |-> <<0, 0>>, data |-> <<>>]

(* np.eye(n, m) *)
Eye(n, m) == [i \in 1..n |-> [j \in 1..m |-> IF i = j THEN 1 ELSE 0]]

(* reducer.fit_transform(X): one row of n_components values per sample, a *)
(* deterministic function of the data and the reducer's arguments         *)
UmapFitTransform(X, args) ==
    [i \in 1..X.shape[1] |->
        [j \in 1..args.n_components |->
            (SumSeq(X.data[i]) * j + args.random_state + args.n_neighbors) % 7]]

(* fit_transform raises on data without features (its input check asks *)
(* for at least one), and may raise for reasons of its own             *)
FitRaises(X, faults) == faults.fit \/ X.shape[2] = 0

(* The fitted reducer: what transform() later depends on *)
FittedReducer(X, args) ==
    [n_components |-> args.n_components, n_features |-> X.shape[2]]

(* A byte is a pair of hexadecimal digits; a byte string is a sequence of *)
(* bytes.  A list of int is a sequence of integers of any size.           *)
Byte(v) == <<v \div 16, v % 16>>

ByteValue(b) == 16 * b[1] + b[2]

(* bytes(list of int): ValueError unless every element is in range(256) *)
IsBytes(l) == \A i \in 1..Len(l) : l[i] \in 0..255

BytesFromList(l) == [i \in 1..Len(l) |-> Byte(l[i])]

(* Variant: list() of a byte string yields its hexadecimal digits *)
ListFromBytesDigits(b) ==
    [i \in 1..(2 * Len(b)) |-> b[(i + 1) \div 2][2 - (i % 2)]]

(* Variant: the rewrite does not look at the method *)
AdaptNeighborsAnyMethod(req, n_samples) ==
    IF /\ TruthyInt(req.n_neighbors)
       /\ Get(req.n_neighbors) >= n_samples
    THEN [req EXCEPT !.n_neighbors = Some(Max(2, n_samples - 1))]
    ELSE req

(* Variant: list() of a byte string yields signed values *)
ListFromBytesSigned(b) ==
    [i \in 1..Len(b) |->
        IF ByteValue(b[i]) >= 128 THEN ByteValue(b[i]) - 256 ELSE ByteValue(b[i])]

(* list(byte string): one integer per byte, in order *)
ListFromBytes(b) == [i \in 1..Len(b) |-> ByteValue(b[i])]

(* cloudpickle.dumps(reducer): a non-empty byte string *)
Dumps(reducer) ==
    BytesFromList(PickleHeader \o <<reducer.n_components, reducer.n_features>>)

(* cloudpickle.loads(bytes): raises unless the bytes are a pickle *)
IsPickle(b) ==
    /\ Len(b) = 3
    /\ ByteValue(b[1]) = PickleHeader[1]
    /\ ByteValue(b[2]) \in {2, 3}
    /\ ByteValue(b[3]) >= 1

Loads(b) == [n_components |-> ByteValue(b[2]), n_features |-> ByteValue(b[3])]

(* fitted_model.transform(X): raises on a feature-count mismatch, else one *)
(* row of the model's n_components values per sample                       *)
UmapTransform(model, X) ==
    [i \in 1..X.shape[1] |->
        [j \in 1..model.n_components |-> (SumSeq(X.data[i]) * j + 1) % 7]]

(* ridge.coef_.T after Ridge(alpha=0.1, fit_intercept=False).fit(X, U): an *)
(* embedding_dim x target_dim matrix, a deterministic function of X and U  *)
RidgeCoefT(X, U) ==
    [i \in 1..X.shape[2] |->
        [j \in 1..(IF Len(U) = 0 THEN 0 ELSE Len(U[1])) |->
            SumSeq([n \in 1..X.shape[1] |-> X.data[n][i] * U[n][j]])]]

----------------------------------------------------------------------------
(* Variant: the fallback builds np.eye(target_dim, embedding_dim) *)
CreateRidgeSwappedFallback(X, coordinates, faults) ==
    IF faults.ridge
    THEN Ok(Eye(IF Len(coordinates) = 0 THEN 0 ELSE Len(coordinates[1]), X.shape[2]),
            <<Call("ridge", TRUE)>>, None)
    ELSE Ok(RidgeCoefT(X, coordinates), <<Call("ridge", FALSE)>>, None)

(* _create_ridge_transformation_matrix: the Ridge coefficients, or the    *)
(* truncated identity when the fit raises; it never raises itself         *)
CreateRidgeTransformationMatrix(X, coordinates, faults) ==
    IF faults.ridge
    THEN Ok(Eye(X.shape[2], IF Len(coordinates) = 0 THEN 0 ELSE Len(coordinates[1])),
            <<Call("ridge", TRUE)>>, None)
    ELSE Ok(RidgeCoefT(X, coordinates), <<Call("ridge", FALSE)>>, None)

(* Variant: the engine does not cap n_neighbors at n_samples - 1 *)
EffectiveNeighborsNoCap(req, n_samples) ==
    Max(2, IF TruthyInt(req.n_neighbors) THEN Get(req.n_neighbors)
           ELSE DefaultNeighbors)

(* _reduce_with_umap_learning, lines 210-212: n_neighbors for the fit *)
EffectiveNeighbors(req, n_samples) ==
    Max(2, Min(IF TruthyInt(req.n_neighbors) THEN Get(req.n_neighbors)
               ELSE DefaultNeighbors,
               n_samples - 1))

(* Variant: the parameters record the request's n_neighbors, not the *)
(* clamped one                                                       *)
UmapParamsUnclamped(req, n_samples) ==
    [n_neighbors |-> IF TruthyInt(req.n_neighbors) THEN Get(req.n_neighbors)
                     ELSE DefaultNeighbors,
     min_dist |-> IF IsNone(req.min_dist) THEN DefaultMinDist ELSE Get(req.min_dist),
     spread |-> IF IsNone(req.spread) THEN DefaultSpread ELSE Get(req.spread),
     random_state |-> IF TruthyInt(req.random_state) THEN Get(req.random_state)
                      ELSE DefaultRandomState,
     metric |-> "cosine"]

(* Variant: the seed is not the request's alone, it moves on once the *)
(* process has served a request that was kept                         *)
UmapParamsReseeded(req, n_samples) ==
    [n_neighbors |-> EffectiveNeighbors(req, n_samples),
     min_dist |-> IF IsNone(req.min_dist) THEN DefaultMinDist ELSE Get(req.min_dist),
     spread |-> IF IsNone(req.spread) THEN DefaultSpread ELSE Get(req.spread),
     random_state |-> Len(memo) + (IF TruthyInt(req.random_state)
                                   THEN Get(req.random_state)
                                   ELSE DefaultRandomState),
     metric |-> "cosine"]

(* _reduce_with_umap_learning, lines 215-221 *)
UmapParams(req, n_samples) ==
    [n_neighbors |-> EffectiveNeighbors(req, n_samples),
     min_dist |-> IF IsNone(req.min_dist) THEN DefaultMinDist ELSE Get(req.min_dist),
     spread |-> IF IsNone(req.spread) THEN DefaultSpread ELSE Get(req.spread),
     random_state |-> IF TruthyInt(req.random_state) THEN Get(req.random_state)
                      ELSE DefaultRandomState,
     metric |-> "cosine"]

(* umap.UMAP(...), lines 224-232 *)
ReducerArgs(req, umap_params) ==
    [n_components |-> req.target_dimensions,
     n_neighbors |-> umap_params.n_neighbors,
     min_dist |-> umap_params.min_dist,
     spread |-> umap_params.spread,
     random_state |-> umap_params.random_state,
     metric |-> umap_params.metric]

(* _reduce_with_umap_learning, the body of its try block (lines 210-260) *)
LearningTry(X, req, faults) ==
    LET umap_params == UmapParams(req, X.shape[1])
        args == ReducerArgs(req, umap_params)
        log1 == <<Call("fit", FitRaises(X, faults))>>
    IN  IF FitRaises(X, faults)
        THEN Raise("fit_transform raised", log1, Some(args))
        ELSE
        LET umap_coordinates == UmapFitTransform(X, args)
            ridge == CreateRidgeTransformationMatrix(X, umap_coordinates, faults)
            log2 == log1 \o ridge.log
            fitted_model_bytes == Dumps(FittedReducer(X, args))
            log3 == log2 \o <<CallWith("dumps", faults.dumps,
                                       IF faults.dumps THEN <<>>
                                       ELSE fitted_model_bytes)>>
            model_metadata ==
                [training_node_count |-> X.shape[1],
                 embedding_dimension |-> X.shape[2],
                 target_dimensions |-> req.target_dimensions,
                 model_size_bytes |-> Len(fitted_model_bytes),
                 umap_version |-> "umap.__version__"]
        IN  IF ~CLOUDPICKLE_AVAILABLE
            THEN HttpExc(503, <<"cloudpickle not available for model serialization">>,
                         log2, Some(args))
            ELSE IF faults.dumps
            THEN Raise("dumps raised", log3, Some(args))
            ELSE Ok([coordinates |-> umap_coordinates,
                     transformation_matrix |-> ridge.val,
                     fitted_model_bytes |-> fitted_model_bytes,
                     umap_params |-> umap_params,
                     model_metadata |-> model_metadata],
                    log3, Some(args))

(* lines 262-264: "except Exception" around the learning try block *)
LearningExcept(r) ==
    IF r.exc = "none" THEN r
    ELSE HttpExc(500, <<"UMAP learning failed">> \o r.detail, r.log, r.fit)

(* Variant: the Ridge library is not checked before the fit *)
ReduceWithUmapLearningNoRidgeGate(X, req, faults) ==
    IF ~UMAP_AVAILABLE
    THEN HttpExc(503, <<"UMAP not available">>, <<>>, None)
    ELSE LearningExcept(LearningTry(X, req, faults))

(* _reduce_with_umap_learning (lines 195-264): the availability checks,   *)
(* then the try block, whose "except Exception" turns whatever was raised *)
(* inside it, an HTTPException included, into a 500                       *)
ReduceWithUmapLearning(X, req, faults) ==
    IF ~UMAP_AVAILABLE
    THEN HttpExc(503, <<"UMAP not available">>, <<>>, None)
    ELSE IF ~SKLEARN_AVAILABLE
    THEN HttpExc(503, <<"scikit-learn not available for Ridge regression">>, <<>>, None)
    ELSE LearningExcept(LearningTry(X, req, faults))

(* Variant: only an absent model is rejected, an empty one is loaded *)
TransformTryNoneOnly(X, req, faults) ==
    IF IsNone(req.fitted_umap_model)
    THEN HttpExc(400, <<"fitted_umap_model is required for umap_transform method">>,
                 <<>>, None)
    ELSE Raise("loads raised", <<Call("loads", TRUE)>>, None)

(* _reduce_with_umap_transform, the body of its try block (lines 333-348) *)
TransformTry(X, req, faults) ==
    IF ~TruthyList(req.fitted_umap_model)
    THEN HttpExc(400, <<"fitted_umap_model is required for umap_transform method">>,
                 <<>>, None)
    ELSE
    LET list == Get(req.fitted_umap_model)
        model_bytes == BytesFromList(list)
        log1 == <<CallWith("loads", faults.loads \/ ~IsPickle(model_bytes),
                           model_bytes)>>
    IN  IF ~IsBytes(list)
        THEN Raise("bytes must be in range(0, 256)", <<>>, None)
        ELSE IF faults.loads \/ ~IsPickle(model_bytes)
        THEN Raise("loads raised", log1, None)
        ELSE
        LET fitted_model == Loads(model_bytes)
            mismatch == fitted_model.n_features # X.shape[2]
            log2 == log1 \o <<Call("transform", faults.transform \/ mismatch)>>
        IN  IF faults.transform \/ mismatch
            THEN Raise("transform raised", log2, None)
            ELSE Ok(UmapTransform(fitted_model, X), log2, None)

(* Variant: a failure of the transform is reported as a bad request *)
TransformExceptBadRequest(r) ==
    IF r.exc = "error"
    THEN HttpExc(400, <<"UMAP transform failed">> \o r.detail, r.log, r.fit)
    ELSE r

(* lines 350-354: "except HTTPException: raise", then "except Exception" *)
TransformExcept(r) ==
    IF r.exc = "error"
    THEN HttpExc(500, <<"UMAP transform failed">> \o r.detail, r.log, r.fit)
    ELSE r

(* _reduce_with_umap_transform (lines 320-354): the availability checks,  *)
(* then the try block; an HTTPException passes, anything else is a 500    *)
ReduceWithUmapTransform(X, req, faults) ==
    IF ~UMAP_AVAILABLE
    THEN HttpExc(503, <<"UMAP not available">>, <<>>, None)
    ELSE IF ~CLOUDPICKLE_AVAILABLE
    THEN HttpExc(503, <<"cloudpickle not available for model deserialization">>,
                 <<>>, None)
    ELSE TransformExcept(TransformTry(X, req, faults))

----------------------------------------------------------------------------
(* reduce_dimensions *)

(* Variant: the dispatcher clamps to n_samples - 1 without the floor of 2 *)
AdaptNeighborsNoFloor(req, n_samples) ==
    IF /\ req.method = "umap_learning"
       /\ TruthyInt(req.n_neighbors)
       /\ Get(req.n_neighbors) >= n_samples
    THEN [req EXCEPT !.n_neighbors = Some(n_samples - 1)]
    ELSE req

(* lines 139-142: the dispatcher rewrites request.n_neighbors in place *)
AdaptNeighbors(req, n_samples) ==
    IF /\ req.method = "umap_learning"
       /\ TruthyInt(req.n_neighbors)
       /\ Get(req.n_neighbors) >= n_samples
    THEN [req EXCEPT !.n_neighbors = Some(Max(2, n_samples - 1))]
    ELSE req

(* Variant: the transform branch does not set is_incremental *)
ResponseDataNoIncremental(req, X, r) ==
    [coordinates |-> IF req.method = "umap_learning" THEN r.val.coordinates ELSE r.val,
     method |-> req.method,
     input_dimensions |-> X.shape[2],
     output_dimensions |-> req.target_dimensions,
     n_samples |-> X.shape[1],
     transformation_matrix |->
        IF req.method = "umap_learning" THEN Some(r.val.transformation_matrix) ELSE None,
     umap_parameters |->
        IF req.method = "umap_learning" THEN Some(r.val.umap_params) ELSE None,
     fitted_umap_model |->
        IF req.method = "umap_learning"
        THEN Some(ListFromBytes(r.val.fitted_model_bytes)) ELSE None,
     model_metadata |->
        IF req.method = "umap_learning" THEN Some(r.val.model_metadata) ELSE None,
     is_incremental |-> FALSE]

(* lines 164-185: the response data of a successful request *)
ResponseData(req, X, r) ==
    LET base == [coordinates |-> IF req.method = "umap_learning"
                                 THEN r.val.coordinates ELSE r.val,
                 method |-> req.method,
                 input_dimensions |-> X.shape[2],
                 output_dimensions |-> req.target_dimensions,
                 n_samples |-> X.shape[1],
                 transformation_matrix |-> None,
                 umap_parameters |-> None,
                 fitted_umap_model |-> None,
                 model_metadata |-> None,
                 is_incremental |-> FALSE]
    IN  IF req.method = "umap_learning"
        THEN [base EXCEPT
                !.transformation_matrix = Some(r.val.transformation_matrix),
                !.umap_parameters = Some(r.val.umap_params),
                !.fitted_umap_model =
                    IF Len(r.val.fitted_model_bytes) > 0
                    THEN Some(ListFromBytes(r.val.fitted_model_bytes)) ELSE None,
                !.model_metadata = Some(r.val.model_metadata),
                !.is_incremental = FALSE]
        ELSE IF req.method = "umap_transform"
        THEN [base EXCEPT !.is_incremental = TRUE]
        ELSE base

(* Variant: the legacy tag is routed to the transform engine *)
DispatchLinearRouted(X, req, faults) ==
    IF req.method = "umap_learning"
    THEN ReduceWithUmapLearning(X, req, faults)
    ELSE ReduceWithUmapTransform(X, req, faults)

(* lines 149-157: the dispatch on request.method *)
Dispatch(X, req, faults) ==
    IF req.method = "umap_learning"
    THEN ReduceWithUmapLearning(X, req, faults)
    ELSE IF req.method = "linear_transformation"
    THEN HttpExc(400, <<"Linear transformation is disabled. Use umap_learning or umap_transform instead.">>,
                 <<>>, None)
    ELSE IF req.method = "umap_transform"
    THEN ReduceWithUmapTransform(X, req, faults)
    ELSE HttpExc(400, <<"Unknown method">>, <<>>, None)

(* Variant: an engine failure is swallowed and an empty result returned *)
ReduceEnvelopeSwallow(req, X, r) ==
    IF r.exc # "none"
    THEN [out |-> Ok([coordinates |-> <<>>, method |-> req.method], r.log, r.fit),
          request |-> req]
    ELSE [out |-> Ok(ResponseData(req, X, r), r.log, r.fit), request |-> req]

(* lines 159-187: the envelope of a successful request; a raised         *)
(* exception passes through.  The result is the outcome and the request   *)
(* object as the handler leaves it.                                       *)
ReduceEnvelope(req, X, r) ==
    IF r.exc # "none"
    THEN [out |-> r, request |-> req]
    ELSE [out |-> Ok(ResponseData(req, X, r), r.log, r.fit), request |-> req]

(* lines 144-157, on the request as adapted *)
ReduceAdapted(req, X, faults) ==
    IF req.method = "umap_learning" /\ X.shape[1] < 2
    THEN [out |-> HttpExc(400, <<"At least 2 vectors required for UMAP learning">>,
                          <<>>, None),
          request |-> req]
    ELSE ReduceEnvelope(req, X, Dispatch(X, req, faults))

(* Variant: the ValueError of np.array is not caught at line 129 *)
ReduceArrayUncaught(req, X, faults) ==
    IF X.raised
    THEN [out |-> Raise("inhomogeneous shape", <<>>, None), request |-> req]
    ELSE ReduceAdapted(AdaptNeighbors(req, X.shape[1]), X, faults)

(* lines 127-142, on the array built from the vectors *)
ReduceArray(req, X, faults) ==
    IF X.raised
    THEN [out |-> HttpExc(400, <<"Invalid vector format">>, <<>>, None),
          request |-> req]
    ELSE IF X.ndim # 2
    THEN [out |-> HttpExc(400, <<"Vectors must be 2-dimensional array">>, <<>>, None),
          request |-> req]
    ELSE ReduceAdapted(AdaptNeighbors(req, X.shape[1]), X, faults)

(* lines 118-187: the body of the handler's try block *)
ReduceDimensionsTry(req, faults) ==
    IF Len(req.vectors) = 0
    THEN [out |-> HttpExc(400, <<"No vectors provided">>, <<>>, None), request |-> req]
    ELSE IF req.method = "umap_learning" /\ Len(req.vectors) < 2
    THEN [out |-> HttpExc(400, <<"At least 2 vectors required for UMAP learning">>,
                          <<>>, None),
          request |-> req]
    ELSE ReduceArray(req, NpArray(req.vectors), faults)

(* lines 189-193: an HTTPException passes, anything else becomes a 500 *)
ReduceExcept(t) ==
    IF t.out.exc = "error"
    THEN [t EXCEPT !.out = HttpExc(500, <<"Internal server error">> \o t.out.detail,
                                   t.out.log, t.out.fit)]
    ELSE t

(* reduce_dimensions (lines 111-193) *)
ReduceDimensionsHandler(req, faults) ==
    ReduceExcept(ReduceDimensionsTry(req, faults))

(* The Field constraints of DimensionReductionRequest (lines 46-58); a    *)
(* body that violates them never reaches the handler (FastAPI answers 422) *)
ValidRequest(req) ==
    /\ req.method \in Methods
    /\ req.target_dimensions \in 2..3
    /\ (IF IsNone(req.n_neighbors) THEN TRUE ELSE Get(req.n_neighbors) >= 2)
    /\ (IF IsNone(req.min_dist) THEN TRUE ELSE Get(req.min_dist) \in 0..10)
    /\ (IF IsNone(req.spread) THEN TRUE ELSE Get(req.spread) \in 1..100)

ValidInputs == { req \in RequestInputs : ValidRequest(req) }

InvalidInputs == { req \in RequestInputs : ~ValidRequest(req) }

----------------------------------------------------------------------------
(* The matrix service.  A float is a fraction <<n, d>>; the fraction 0/0  *)
(* is the NaN a division of zero by zero leaves in a numpy array.         *)

Rat(n, d) == <<n, d>>

IsNaN(q) == q[2] = 0

HasNaN(m) == \E i \in 1..Len(m) : \E j \in 1..Len(m[i]) : IsNaN(m[i][j])

(* np.eye(4) *)
Eye4 == [i \in 1..4 |-> [j \in 1..4 |-> Rat(IF i = j THEN 1 ELSE 0, 1)]]

(* Variant: the two branches are taken the other way round *)
GenerateIdentityMatrixSwapped(dimensions) ==
    IF dimensions # 3
    THEN Eye4
    ELSE [i \in 1..3 |-> [j \in 1..3 |-> Rat(IF i = j THEN 1 ELSE 0, 1)]]

(* _generate_identity_matrix (lines 411-425) *)
GenerateIdentityMatrix(dimensions) ==
    IF dimensions = 3
    THEN Eye4
    ELSE [i \in 1..3 |-> [j \in 1..3 |-> Rat(IF i = j THEN 1 ELSE 0, 1)]]

(* Variant: the translation is written into the last row *)
CreateTranslationMatrixRow(translation) ==
    [i \in 1..4 |-> [j \in 1..4 |->
        IF i = 4 /\ j <= 3 THEN Rat(translation[j], 1) ELSE Eye4[i][j]]]

(* _create_translation_matrix (lines 485-491) *)
CreateTranslationMatrix(translation) ==
    [i \in 1..4 |-> [j \in 1..4 |->
        IF j = 4 /\ i <= 3 THEN Rat(translation[i], 1) ELSE Eye4[i][j]]]

(* Variant: the first factor is written into the last diagonal entry too *)
CreateScaleMatrixAll(scale_factors) ==
    [i \in 1..4 |-> [j \in 1..4 |->
        IF i = j THEN Rat(scale_factors[IF i <= 3 THEN i ELSE 1], 1) ELSE Eye4[i][j]]]

(* _create_scale_matrix (lines 518-524) *)
CreateScaleMatrix(scale_factors) ==
    [i \in 1..4 |-> [j \in 1..4 |->
        IF i = j /\ i <= 3 THEN Rat(scale_factors[i], 1) ELSE Eye4[i][j]]]

Dot(a, b) == a[1] * b[1] + a[2] * b[2] + a[3] * b[3]

IsSquare(n) == \E r \in 0..n : r * r = n

(* np.linalg.norm(axis), for the axes whose norm is an integer *)
Norm(axis) == CHOOSE r \in 0..Dot(axis, axis) : r * r = Dot(axis, axis)

(* np.cos and np.sin of an angle given as a number of quarter turns *)
Cos(angle) ==
    CASE angle % 4 = 0 -> 1
      [] angle % 4 = 2 -> -1
      [] OTHER -> 0

Sin(angle) ==
    CASE angle % 4 = 1 -> 1
      [] angle % 4 = 3 -> -1
      [] OTHER -> 0

(* Variant: one entry of K has the wrong sign *)
SkewSignSlip(axis) ==
    << <<0, axis[3], axis[2]>>,
       <<axis[3], 0, -axis[1]>>,
       <<-axis[2], axis[1], 0>> >>

(* lines 504-508: the skew-symmetric matrix of the axis, before the *)
(* division by the norm                                             *)
Skew(axis) ==
    << <<0, -axis[3], axis[2]>>,
       <<axis[3], 0, -axis[1]>>,
       <<-axis[2], axis[1], 0>> >>

(* np.dot of two 3x3 matrices *)
MatMul3(A, B) ==
    [i \in 1..3 |-> [j \in 1..3 |->
        A[i][1] * B[1][j] + A[i][2] * B[2][j] + A[i][3] * B[3][j]]]

(* line 511: R = I + sin K/|a| + (1 - cos) K.K/|a|^2, every entry over *)
(* the common denominator |a|^2; a zero axis leaves 0/0 in every entry *)
Rodrigues(axis, angle, norm) ==
    [i \in 1..3 |-> [j \in 1..3 |->
        Rat((IF i = j THEN norm * norm ELSE 0)
                + Sin(angle) * norm * Skew(axis)[i][j]
                + (1 - Cos(angle)) * MatMul3(Skew(axis), Skew(axis))[i][j],
            norm * norm)]]

(* _create_rotation_matrix (lines 493-516): no check of the norm *)
CreateRotationMatrix(axis, angle) ==
    [i \in 1..4 |-> [j \in 1..4 |->
        IF i <= 3 /\ j <= 3
        THEN Rodrigues(axis, angle, Norm(axis))[i][j]
        ELSE Eye4[i][j]]]

(* "not x or len(x) != 3" *)
NotTriple(o) == IF TruthyList(o) THEN Len(Get(o)) # 3 ELSE TRUE

NoParameters ==
    [translation |-> None, rotation_axis |-> None, rotation_angle |-> None,
     scale_factors |-> None]

(* MatrixCreationResponse (lines 473-477); a key absent from the *)
(* parameters dict is None                                       *)
MatrixCreationResponse(matrix, matrix_type, parameters) ==
    Ok([matrix |-> matrix, matrix_type |-> matrix_type, parameters |-> parameters],
       <<>>, None)

(* create_transformation_matrix, the body of its try block (lines 446-477) *)
CreateTransformationMatrixTry(req) ==
    IF req.matrix_type = "identity"
    THEN MatrixCreationResponse(GenerateIdentityMatrix(3), req.matrix_type, NoParameters)
    ELSE IF req.matrix_type = "translation"
    THEN IF NotTriple(req.translation)
         THEN HttpExc(400, <<"Translation vector must have 3 elements [x, y, z]">>,
                      <<>>, None)
         ELSE MatrixCreationResponse(
                  CreateTranslationMatrix(Get(req.translation)), req.matrix_type,
                  [NoParameters EXCEPT !.translation = req.translation])
    ELSE IF req.matrix_type = "rotation"
    THEN IF NotTriple(req.rotation_axis)
         THEN HttpExc(400, <<"Rotation axis must have 3 elements [x, y, z]">>,
                      <<>>, None)
         ELSE IF IsNone(req.rotation_angle)
         THEN HttpExc(400, <<"Rotation angle is required">>, <<>>, None)
         ELSE MatrixCreationResponse(
                  CreateRotationMatrix(Get(req.rotation_axis), Get(req.rotation_angle)),
                  req.matrix_type,
                  [NoParameters EXCEPT !.rotation_axis = req.rotation_axis,
                                       !.rotation_angle = req.rotation_angle])
    ELSE IF req.matrix_type = "scale"
    THEN IF NotTriple(req.scale_factors)
         THEN HttpExc(400, <<"Scale factors must have 3 elements [x, y, z]">>,
                      <<>>, None)
         ELSE MatrixCreationResponse(
                  CreateScaleMatrix(Get(req.scale_factors)), req.matrix_type,
                  [NoParameters EXCEPT !.scale_factors = req.scale_factors])
    ELSE HttpExc(400, <<"Unknown matrix type">>, <<>>, None)

(* lines 479-483: an HTTPException passes, anything else becomes a 500 *)
MatrixCreationExcept(r) ==
    IF r.exc = "error"
    THEN HttpExc(500, <<"Matrix creation failed">> \o r.detail, r.log, r.fit)
    ELSE r

(* create_transformation_matrix (lines 442-483) *)
CreateTransformationMatrixHandler(req) ==
    MatrixCreationExcept(CreateTransformationMatrixTry(req))

(* The JSON rendering of the returned model (line 441): a NaN is written *)
(* out or refused, depending on the encoder's allow_nan                  *)
RenderMatrix(r, allow_nan) ==
    IF r.exc = "none" /\ ~allow_nan /\ HasNaN(r.val.matrix)
    THEN HttpExc(500, <<"Internal Server Error">>, <<>>, None)
    ELSE r

(* MatrixCreationRequest (lines 427-433) and the values a client may send *)
MatrixTypes == {"identity", "translation", "rotation", "scale"}

Triples(S) == { <<x, y, z>> : x \in S, y \in S, z \in S }

(* a list of floats that is absent, empty, too short, too long, or a triple *)
ListInputs ==
    {None, Some(<<>>), Some(<<1, 2>>), Some(<<1, 2, 0, 1>>)}
        \cup { Some(v) : v \in Triples(-1..MaxCoord) }

AxisInputs ==
    {None, Some(<<>>), Some(<<0, 1>>), Some(<<0, 0, 1, 0>>)}
        \cup { Some(a) : a \in { v \in Triples(-MaxCoord..MaxCoord) :
                                    IsSquare(Dot(v, v)) } }

AngleInputs == {None} \cup { Some(q) : q \in 0..3 }

DefaultMatrixRequest ==
    [matrix_type |-> "identity", translation |-> None, rotation_axis |-> None,
     rotation_angle |-> None, scale_factors |-> None]

(* the same request with every field its type does not read filled in *)
OtherFields ==
    [matrix_type |-> "identity", translation |-> Some(<<1, 1, 1>>),
     rotation_axis |-> Some(<<0, 0, 1>>), rotation_angle |-> Some(1),
     scale_factors |-> Some(<<2, 2, 2>>)]

MatrixRequestInputs ==
    { [b EXCEPT !.matrix_type = "identity"] : b \in {DefaultMatrixRequest, OtherFields} }
    \cup { [b EXCEPT !.matrix_type = "translation", !.translation = t] :
             b \in {DefaultMatrixRequest, OtherFields}, t \in ListInputs }
    \cup { [b EXCEPT !.matrix_type = "scale", !.scale_factors = f] :
             b \in {DefaultMatrixRequest, OtherFields}, f \in ListInputs }
    \cup { [b EXCEPT !.matrix_type = "rotation", !.rotation_axis = a,
                     !.rotation_angle = q] :
             b \in {DefaultMatrixRequest, OtherFields}, a \in AxisInputs,
             q \in AngleInputs }

----------------------------------------------------------------------------
(* Coordinate normalization *)

(* np.min and np.max along axis 0 *)
ColumnMin(coordinates, j) ==
    CHOOSE m \in { coordinates[i][j] : i \in 1..Len(coordinates) } :
        \A i \in 1..Len(coordinates) : m <= coordinates[i][j]

ColumnMax(coordinates, j) ==
    CHOOSE m \in { coordinates[i][j] : i \in 1..Len(coordinates) } :
        \A i \in 1..Len(coordinates) : m >= coordinates[i][j]

(* line 365: np.where(ranges == 0, 1, ranges) *)
Ranges(coordinates, j) ==
    IF ColumnMax(coordinates, j) - ColumnMin(coordinates, j) = 0
    THEN 1
    ELSE ColumnMax(coordinates, j) - ColumnMin(coordinates, j)

(* Variant: the shift by -1 is left out *)
NormalizeCoordinatesUnshifted(coordinates, target_range) ==
    LET min_vals == [j \in 1..Len(coordinates[1]) |-> ColumnMin(coordinates, j)]
        ranges == [j \in 1..Len(coordinates[1]) |-> Ranges(coordinates, j)]
    IN  [i \in 1..Len(coordinates) |-> [j \in 1..Len(coordinates[1]) |->
            Rat(target_range * 2 * (coordinates[i][j] - min_vals[j]), ranges[j])]]

(* _normalize_coordinates (lines 357-371):                         *)
(* (2 * (c - min) / ranges - 1) * target_range, as one fraction    *)
NormalizeCoordinates(coordinates, target_range) ==
    LET min_vals == [j \in 1..Len(coordinates[1]) |-> ColumnMin(coordinates, j)]
        ranges == [j \in 1..Len(coordinates[1]) |-> Ranges(coordinates, j)]
    IN  [i \in 1..Len(coordinates) |-> [j \in 1..Len(coordinates[1]) |->
            Rat(target_range * (2 * (coordinates[i][j] - min_vals[j]) - ranges[j]),
                ranges[j])]]

(* coordinate arrays of n rows and two columns: every choice of values *)
(* on the first axis, a constant or a rising second axis              *)
CoordinateInputs(n) ==
    { [i \in 1..n |-> <<f[i], g[i]>>] :
        f \in [1..n -> 0..MaxCoord],
        g \in { [i \in 1..n |-> 0], [i \in 1..n |-> i - 1] } }

TargetRangeInputs == {1, 5, DefaultTargetRange}

----------------------------------------------------------------------------
(* The health endpoint *)

(* Variant: the two flags are reported under each other's name *)
HealthCheckSwapped ==
    [status |-> "healthy", umap_available |-> SKLEARN_AVAILABLE,
     sklearn_available |-> UMAP_AVAILABLE, version |-> "1.0.0"]

(* health_check (lines 101-108) with the defaults of HealthResponse *)
(* (lines 75-79)                                                    *)
HealthCheckHandler ==
    [status |-> "healthy", umap_available |-> UMAP_AVAILABLE,
     sklearn_available |-> SKLEARN_AVAILABLE, version |-> "1.0.0"]

----------------------------------------------------------------------------
(* The state machine *)

----------------------------------------------------------------------------
(* The backend service, src/backend/app.py: the AI provider registry and  *)
(* call_llm_provider.  A provider's config is modelled by its enabled     *)
(* flag and by whether it has an api_key.                                 *)

MaxRetries == 3

(* class AIProvider (lines 53-56) *)
OPENROUTER == "openrouter"

OLLAMA == "ollama"

AIProvider == {OPENROUTER, OLLAMA, "cloud"}

ProviderConfig(enabled, api_key) == [enabled |-> enabled, api_key |-> api_key]

(* register_provider (lines 78-80) *)
RegisterProvider(provs, provider_name, config) ==
    [n \in (DOMAIN provs) \cup {provider_name} |->
        IF n = provider_name THEN config ELSE provs[n]]

(* get_provider (lines 82-83) *)
GetProvider(provs, provider_name) ==
    IF provider_name \in DOMAIN provs THEN Some(provs[provider_name]) ELSE None

(* get_current_provider (lines 85-88) *)
GetCurrentProvider(provs, cur) ==
    IF IsNone(cur) THEN None ELSE GetProvider(provs, Get(cur))

(* Variant: the enabled flag is not looked at *)
SetCurrentProviderUnchecked(provs, cur, provider_name) ==
    IF provider_name \in DOMAIN provs
    THEN [ret |-> TRUE, current_provider |-> Some(provider_name)]
    ELSE [ret |-> FALSE, current_provider |-> cur]

(* set_current_provider (lines 90-95): what it returns and the *)
(* current_provider it leaves                                  *)
SetCurrentProvider(provs, cur, provider_name) ==
    IF provider_name \in DOMAIN provs
    THEN IF provs[provider_name].enabled
         THEN [ret |-> TRUE, current_provider |-> Some(provider_name)]
         ELSE [ret |-> FALSE, current_provider |-> cur]
    ELSE [ret |-> FALSE, current_provider |-> cur]

(* track_request (lines 104-111): status and provider of the entry *)
TrackRequest(reqs, request_id, cur) ==
    [i \in (DOMAIN reqs) \cup {request_id} |->
        IF i = request_id THEN [status |-> "started", provider |-> cur]
        ELSE reqs[i]]

(* update_request_status (lines 113-118) *)
UpdateRequestStatus(reqs, request_id, status) ==
    IF request_id \in DOMAIN reqs
    THEN [reqs EXCEPT ![request_id].status = status]
    ELSE reqs

(* call_openrouter (lines 1776-1804) returns: the provider is configured, *)
(* enabled, has a key, and the HTTP exchange net went well                *)
CallOpenrouterOk(provs, net) ==
    IF OPENROUTER \in DOMAIN provs
    THEN provs[OPENROUTER].enabled /\ provs[OPENROUTER].api_key /\ net
    ELSE FALSE

(* call_ollama (lines 1806-1835) returns *)
CallOllamaOk(provs, net) ==
    IF OLLAMA \in DOMAIN provs THEN provs[OLLAMA].enabled /\ net ELSE FALSE

(* one call of a provider function, as call_llm_provider made it *)
CallTo(target, kind, ok) == [target |-> target, kind |-> kind, ok |-> ok]

(* line 1722: f"req_{int(time.time())}_{provider_name}", a name no caller *)
(* supplies                                                               *)
GeneratedId(provider_name) ==
    IF provider_name = OPENROUTER THEN -1
    ELSE IF provider_name = OLLAMA THEN -2 ELSE -3

(* request_id as passed: left out, or a name of the caller's *)
RequestIdInputs == {None, Some(1)}

(* the coroutine of call_llm_provider: where it is, its locals, the calls *)
(* it made, and whether it got as far as track_request                    *)
NoTask ==
    [pc |-> "none", provider_name |-> "none", request_id |-> 0,
     max_retries |-> 0, attempt |-> 0, log |-> <<>>, tracked |-> FALSE]

(* lines 1734-1746: the call of one pass of the loop *)
PrimaryCall(t, provs, cur, net) ==
    IF t.provider_name = OPENROUTER
    THEN [ok |-> CallOpenrouterOk(provs, net),
          log |-> <<CallTo(OPENROUTER, "attempt", CallOpenrouterOk(provs, net))>>,
          status |-> "in_progress",
          current_provider |-> cur, setCall |-> None]
    ELSE IF t.provider_name = OLLAMA
    THEN [ok |-> CallOllamaOk(provs, net),
          log |-> <<CallTo(OLLAMA, "attempt", CallOllamaOk(provs, net))>>,
          status |-> "in_progress",
          current_provider |-> cur, setCall |-> None]
    ELSE IF SetCurrentProvider(provs, cur, OPENROUTER).ret
    THEN [ok |-> CallOpenrouterOk(provs, net),
          log |-> <<CallTo(OPENROUTER, "unknown", CallOpenrouterOk(provs, net))>>,
          status |-> "fallback",
          current_provider |-> Some(OPENROUTER),
          setCall |-> Some([name |-> OPENROUTER, ret |-> TRUE])]
    ELSE [ok |-> FALSE, log |-> <<>>, status |-> "fallback",
          current_provider |-> cur,
          setCall |-> Some([name |-> OPENROUTER, ret |-> FALSE])]

Exit(t, pc_, entries, reqs, status) ==
    [task |-> [t EXCEPT !.pc = pc_, !.attempt = @ + 1, !.log = @ \o entries],
     active_requests |-> UpdateRequestStatus(reqs, t.request_id, status)]

(* Variant: the last pass is taken to be the one after max_retries *)
AttemptOutcomeOneMore(t, provs, reqs, p, fnet) ==
    IF p.ok
    THEN Exit(t, "returned", p.log, reqs, "completed")
    ELSE IF t.attempt + 1 # t.max_retries + 1
    THEN Exit(t, "sleeping", p.log, reqs, "error")
    ELSE IF t.provider_name = OPENROUTER
    THEN Exit(t, "raised", p.log, reqs, "failed")
    ELSE IF OPENROUTER \notin DOMAIN provs
    THEN Exit(t, "raised", p.log, reqs, "error")
    ELSE IF ~provs[OPENROUTER].enabled
    THEN Exit(t, "raised", p.log, reqs, "failed")
    ELSE IF CallOpenrouterOk(provs, fnet)
    THEN Exit(t, "returned", p.log \o <<CallTo(OPENROUTER, "fallback", TRUE)>>,
              reqs, "completed")
    ELSE Exit(t, "raised", p.log \o <<CallTo(OPENROUTER, "fallback", FALSE)>>,
              reqs, "failed")

(* lines 1747-1774: what follows the call p of a pass, up to the return, *)
(* the raise, or the sleep before the next pass                          *)
AttemptOutcome(t, provs, reqs, p, fnet) ==
    IF p.ok
    THEN Exit(t, "returned", p.log, reqs, "completed")
    ELSE IF t.attempt + 1 # t.max_retries
    THEN Exit(t, "sleeping", p.log, reqs, "error")
    ELSE IF t.provider_name = OPENROUTER
    THEN Exit(t, "raised", p.log, reqs, "failed")
    ELSE IF OPENROUTER \notin DOMAIN provs
    THEN Exit(t, "raised", p.log, reqs, "error")
    ELSE IF ~provs[OPENROUTER].enabled
    THEN Exit(t, "raised", p.log, reqs, "failed")
    ELSE IF CallOpenrouterOk(provs, fnet)
    THEN Exit(t, "returned", p.log \o <<CallTo(OPENROUTER, "fallback", TRUE)>>,
              reqs, "completed")
    ELSE Exit(t, "raised", p.log \o <<CallTo(OPENROUTER, "fallback", FALSE)>>,
              reqs, "failed")

(* the backend process is not part of the run *)
BackendDown ==
    /\ providers = <<>>
    /\ current_provider = None
    /\ active_requests = <<>>
    /\ boot = "down"
    /\ task = NoTask
    /\ setCall = None

NoResponse == [status |-> 0, detail |-> <<>>, body |-> None]

Init ==
    /\ UMAP_AVAILABLE \in BOOLEAN
    /\ SKLEARN_AVAILABLE \in BOOLEAN
    /\ CLOUDPICKLE_AVAILABLE \in BOOLEAN
    /\ pc = "idle"
    /\ endpoint = "none"
    /\ received = None
    /\ request = None
    /\ response = NoResponse
    /\ calls = <<>>
    /\ fitArgs = None
    /\ memo = None
    /\ inbox = [c \in Clients |-> None]
    /\ outbox = [c \in Clients |-> None]
    /\ BackendDown

(* POST /reduce with a body the request model rejects *)
RejectReduce ==
    /\ pc = "idle"
    /\ \E req \in InvalidInputs :
        /\ received' = Some(req)
        /\ request' = None
        /\ response' = [status |-> 422, detail |-> <<"validation error">>, body |-> None]
        /\ calls' = <<>>
        /\ fitArgs' = None
    /\ pc' = "done"
    /\ endpoint' = "reduce"
    /\ UNCHANGED <<backend, libs, memo, clients>>

(* POST /reduce with one of the given bodies: the whole of reduce_dimensions *)
Reduce(inputs) ==
    /\ pc = "idle"
    /\ \E req \in inputs :
        \E faults \in FaultInputs(req.method) :
            \E t \in {ReduceDimensionsHandler(req, faults)} :
                /\ received' = Some(req)
                /\ request' = Some(t.request)
                /\ response' = [status |-> t.out.status, detail |-> t.out.detail,
                                body |-> IF t.out.exc = "none"
                                         THEN Some(t.out.val) ELSE None]
                /\ calls' = t.out.log
                /\ fitArgs' = t.out.fit
    /\ pc' = "done"
    /\ endpoint' = "reduce"
    /\ UNCHANGED <<backend, libs, memo, clients>>

ReduceDimensions == Reduce(ValidInputs)

(* POST /create-matrix with one of the given bodies: the whole of *)
(* create_transformation_matrix and the rendering of its result   *)
CreateMatrixOn(inputs) ==
    /\ pc = "idle"
    /\ \E req \in inputs :
        \E allow_nan \in BOOLEAN :
            \E r \in {RenderMatrix(CreateTransformationMatrixHandler(req), allow_nan)} :
                /\ received' = Some(req)
                /\ request' = Some(req)
                /\ response' = [status |-> r.status, detail |-> r.detail,
                                body |-> IF r.exc = "none" THEN Some(r.val) ELSE None]
    /\ calls' = <<>>
    /\ fitArgs' = None
    /\ pc' = "done"
    /\ endpoint' = "create-matrix"
    /\ UNCHANGED <<backend, libs, memo, clients>>

CreateMatrix == CreateMatrixOn(MatrixRequestInputs)

(* GET /health: the whole of health_check *)
HealthCheck ==
    /\ pc = "idle"
    /\ received' = None
    /\ request' = None
    /\ response' = [status |-> 200, detail |-> <<>>, body |-> Some(HealthCheckHandler)]
    /\ calls' = <<>>
    /\ fitArgs' = None
    /\ pc' = "done"
    /\ endpoint' = "health"
    /\ UNCHANGED <<backend, libs, memo, clients>>

(* Variant: a library whose call raised is marked unavailable afterwards *)
ReturnDowngrading ==
    /\ pc = "done"
    /\ pc' = "idle"
    /\ endpoint' = "none"
    /\ received' = None
    /\ request' = None
    /\ response' = NoResponse
    /\ calls' = <<>>
    /\ fitArgs' = None
    /\ UMAP_AVAILABLE' = (UMAP_AVAILABLE /\ \A i \in 1..Len(calls) : ~calls[i].raised)
    /\ UNCHANGED <<backend, SKLEARN_AVAILABLE, CLOUDPICKLE_AVAILABLE, memo, clients>>

(* The response has been sent; everything request-scoped is dropped *)
Return ==
    /\ pc = "done"
    /\ pc' = "idle"
    /\ endpoint' = "none"
    /\ received' = None
    /\ request' = None
    /\ response' = NoResponse
    /\ calls' = <<>>
    /\ fitArgs' = None
    /\ UNCHANGED <<backend, libs, memo, clients>>

Next == RejectReduce \/ ReduceDimensions \/ CreateMatrix \/ HealthCheck \/ Return

Spec == Init /\ [][Next]_vars

----------------------------------------------------------------------------
(* _normalize_coordinates on its own: it reads nothing but its arguments *)

InitNormalize ==
    /\ Init
    /\ UMAP_AVAILABLE /\ SKLEARN_AVAILABLE /\ CLOUDPICKLE_AVAILABLE

Normalize ==
    /\ pc = "idle"
    /\ \E n \in 1..MaxRows :
        \E coordinates \in CoordinateInputs(n) :
            \E target_range \in TargetRangeInputs :
                /\ received' = Some([coordinates |-> coordinates,
                                     target_range |-> target_range])
                /\ response' = [status |-> 200, detail |-> <<>>,
                                body |-> Some(NormalizeCoordinates(coordinates,
                                                                   target_range))]
    /\ request' = None
    /\ calls' = <<>>
    /\ fitArgs' = None
    /\ pc' = "done"
    /\ endpoint' = "_normalize_coordinates"
    /\ UNCHANGED <<backend, libs, memo, clients>>

NextNormalize == Normalize \/ Return

SpecNormalize == InitNormalize /\ [][NextNormalize]_vars

----------------------------------------------------------------------------
(* A client that keeps one exchange and goes on sending requests, the  *)
(* kept one among them                                                 *)

ReplayVectors == {RectVectors(2, 1, 1), RectVectors(3, 2, 1)}

ReplayInputs ==
    { req \in ValidInputs :
        /\ req.vectors \in ReplayVectors
        /\ req.method \in {"umap_learning", "umap_transform"}
        /\ req.target_dimensions = 2
        /\ req.n_neighbors = None
        /\ (req.method = "umap_learning" => req.fitted_umap_model = None) }

ReplayMatrixInputs ==
    { DefaultMatrixRequest,
      [DefaultMatrixRequest EXCEPT !.matrix_type = "translation"],
      [DefaultMatrixRequest EXCEPT !.matrix_type = "rotation",
                                   !.rotation_axis = Some(<<0, 0, 0>>),
                                   !.rotation_angle = Some(1)] }

ReplayReduce == Reduce(ReplayInputs)

ReplayMatrix == CreateMatrixOn(ReplayMatrixInputs)

(* The client keeps the request it sent, the response it got and, for *)
(* the comparison, the library calls made for it                      *)
Keep ==
    /\ pc = "done"
    /\ endpoint = "reduce"
    /\ ~IsNone(request)
    /\ IsNone(memo)
    /\ memo' = Some([request |-> Get(received), response |-> response,
                     calls |-> calls])
    /\ pc' = "idle"
    /\ endpoint' = "none"
    /\ received' = None
    /\ request' = None
    /\ response' = NoResponse
    /\ calls' = <<>>
    /\ fitArgs' = None
    /\ UNCHANGED <<backend, libs, clients>>

NextReplay == ReplayReduce \/ ReplayMatrix \/ HealthCheck \/ Keep \/ Return

SpecReplay == Init /\ [][NextReplay]_vars

----------------------------------------------------------------------------
(* Clients with requests in flight at the same time.  The event loop   *)
(* starts the handlers in any order and runs each to completion.       *)

ConcurrentInputs ==
    { req \in ReplayInputs :
        /\ req.random_state = Some(DefaultRandomState)
        /\ (req.method = "umap_transform" =>
                req.fitted_umap_model
                    \in { Some(PickleHeader \o <<2, d>>) : d \in 1..2 }) }

(* Variant: the handler reads the oldest request still waiting *)
IncomingShared(c) ==
    Get(inbox[CHOOSE d \in Clients :
                /\ ~IsNone(inbox[d]) /\ IsNone(outbox[d])
                /\ \A e \in Clients :
                      (~IsNone(inbox[e]) /\ IsNone(outbox[e])) => d <= e])

(* line 111: the request bound to the handler's parameter *)
Incoming(c) == Get(inbox[c])

Submit(c) ==
    /\ IsNone(inbox[c])
    /\ \E req \in ConcurrentInputs : inbox' = [inbox EXCEPT ![c] = Some(req)]
    /\ UNCHANGED <<backend, libs, exchange, memo, outbox>>

Serve(c) ==
    /\ ~IsNone(inbox[c])
    /\ IsNone(outbox[c])
    /\ \E req \in {Incoming(c)} :
        \E faults \in FaultInputs(req.method) :
            \E t \in {ReduceDimensionsHandler(req, faults)} :
                outbox' = [outbox EXCEPT ![c] =
                    Some([status |-> t.out.status, detail |-> t.out.detail,
                          body |-> IF t.out.exc = "none"
                                   THEN Some(t.out.val) ELSE None])]
    /\ UNCHANGED <<backend, libs, exchange, memo, inbox>>

Collect(c) ==
    /\ ~IsNone(outbox[c])
    /\ inbox' = [inbox EXCEPT ![c] = None]
    /\ outbox' = [outbox EXCEPT ![c] = None]
    /\ UNCHANGED <<backend, libs, exchange, memo>>

NextConcurrent == \E c \in Clients : Submit(c) \/ Serve(c) \/ Collect(c)

SpecConcurrent == Init /\ [][NextConcurrent]_vars

----------------------------------------------------------------------------
(* The backend service on its own: the module is loaded, then handlers    *)
(* and the coroutine of call_llm_provider take steps.  The provider       *)
(* functions use the blocking requests library, so the coroutine yields   *)
(* only at asyncio.sleep (line 1774).                                     *)

(* module load up to line 240: both providers registered, OpenRouter *)
(* enabled when OPENROUTER_API_KEY is set                            *)
InitProvider ==
    /\ UMAP_AVAILABLE = TRUE
    /\ SKLEARN_AVAILABLE = TRUE
    /\ CLOUDPICKLE_AVAILABLE = TRUE
    /\ pc = "idle"
    /\ endpoint = "none"
    /\ received = None
    /\ request = None
    /\ response = NoResponse
    /\ calls = <<>>
    /\ fitArgs = None
    /\ memo = None
    /\ inbox = [c \in Clients |-> None]
    /\ outbox = [c \in Clients |-> None]
    /\ \E key \in BOOLEAN :
          providers = RegisterProvider(
                          RegisterProvider(<<>>, OPENROUTER, ProviderConfig(key, key)),
                          OLLAMA, ProviderConfig(TRUE, FALSE))
    /\ current_provider = None
    /\ active_requests = <<>>
    /\ boot = "loading"
    /\ task = NoTask
    /\ setCall = None

(* line 243: set_current_provider(AI_PROVIDER); lines 161-179 leave *)
(* AI_PROVIDER one of the three names                               *)
Startup ==
    /\ boot = "loading"
    /\ \E name \in AIProvider :
        \E r \in {SetCurrentProvider(providers, current_provider, name)} :
            /\ current_provider' = r.current_provider
            /\ setCall' = Some([name |-> name, ret |-> r.ret])
    /\ boot' = "serving"
    /\ UNCHANGED <<libs, exchange, memo, clients, providers, active_requests, task>>

(* switch_provider (lines 1113-1168): the provider is tested, then made *)
(* current                                                              *)
SwitchProvider ==
    /\ boot = "serving"
    /\ \E provider \in AIProvider, net \in BOOLEAN :
        IF IsNone(GetProvider(providers, provider))
        THEN current_provider' = current_provider /\ setCall' = None
        ELSE IF ~providers[provider].enabled
        THEN current_provider' = current_provider /\ setCall' = None
        ELSE IF IF provider = OPENROUTER THEN CallOpenrouterOk(providers, net)
                ELSE IF provider = OLLAMA THEN CallOllamaOk(providers, net)
                ELSE FALSE
        THEN \E r \in {SetCurrentProvider(providers, current_provider, provider)} :
                /\ current_provider' = r.current_provider
                /\ setCall' = Some([name |-> provider, ret |-> r.ret])
        ELSE current_provider' = current_provider /\ setCall' = None
    /\ UNCHANGED <<libs, exchange, memo, clients, providers, active_requests, boot, task>>

(* test_ollama (lines 1170-1274): the flag follows the outcome of the *)
(* test, or is left alone when only the model is missing              *)
TestOllama ==
    /\ boot = "serving"
    /\ \E enabled \in BOOLEAN :
        providers' = [providers EXCEPT ![OLLAMA].enabled = enabled]
    /\ setCall' = None
    /\ UNCHANGED <<libs, exchange, memo, clients, current_provider, active_requests,
                   boot, task>>

(* get_active_requests (lines 120-137): finished entries older than ten *)
(* minutes are dropped                                                  *)
GetActiveRequests ==
    /\ boot = "serving"
    /\ \E old \in SUBSET { i \in DOMAIN active_requests :
                             active_requests[i].status \in {"completed", "failed"} } :
        active_requests' = [i \in (DOMAIN active_requests) \ old |-> active_requests[i]]
    /\ setCall' = None
    /\ UNCHANGED <<libs, exchange, memo, clients, providers, current_provider, boot, task>>

(* one pass of the loop of call_llm_provider (lines 1730-1774) *)
RunAttempt(t, reqs) ==
    \E net \in BOOLEAN, fnet \in BOOLEAN :
        \E p \in {PrimaryCall(t, providers, current_provider, net)} :
            \E o \in {AttemptOutcome(t, providers,
                                     UpdateRequestStatus(reqs, t.request_id, p.status),
                                     p, fnet)} :
                /\ task' = o.task
                /\ active_requests' = o.active_requests
                /\ current_provider' = p.current_provider
                /\ setCall' = p.setCall

(* call_llm_provider is called (lines 1708-1729) and runs up to its first *)
(* return, raise or sleep                                                 *)
CallLlmProvider ==
    /\ boot = "serving"
    /\ task.pc \in {"none", "returned", "raised"}
    /\ \E max_retries \in 0..MaxRetries, request_id \in RequestIdInputs :
        IF IsNone(GetCurrentProvider(providers, current_provider))
        THEN /\ task' = [NoTask EXCEPT !.pc = "raised", !.max_retries = max_retries]
             /\ setCall' = None
             /\ UNCHANGED <<active_requests, current_provider>>
        ELSE \E t \in {[NoTask EXCEPT
                          !.pc = "running",
                          !.provider_name = Get(current_provider),
                          !.request_id = IF IsNone(request_id)
                                         THEN GeneratedId(Get(current_provider))
                                         ELSE Get(request_id),
                          !.max_retries = max_retries,
                          !.tracked = TRUE]} :
                IF max_retries = 0
                THEN /\ task' = [t EXCEPT !.pc = "returned"]
                     /\ active_requests' = TrackRequest(active_requests, t.request_id,
                                                        current_provider)
                     /\ setCall' = None
                     /\ UNCHANGED current_provider
                ELSE RunAttempt(t, TrackRequest(active_requests, t.request_id,
                                                current_provider))
    /\ UNCHANGED <<libs, exchange, memo, clients, providers, boot>>

(* the sleep of line 1774 is over: the next pass *)
Resume ==
    /\ task.pc = "sleeping"
    /\ RunAttempt(task, active_requests)
    /\ UNCHANGED <<libs, exchange, memo, clients, providers, boot>>

NextProvider ==
    \/ Startup
    \/ SwitchProvider
    \/ TestOllama
    \/ GetActiveRequests
    \/ CallLlmProvider
    \/ Resume

SpecProvider == InitProvider /\ [][NextProvider]_vars

----------------------------------------------------------------------------
(* Vocabulary of the properties *)

(* reduce_dimensions has run on the request in flight *)
Handled == pc = "done" /\ endpoint = "reduce" /\ ~IsNone(request)

Sent == Get(received)

Req == Get(request)

NumVectors == Len(Sent.vectors)

VectorsOk == NumVectors > 0 /\ IsRectangular(Sent.vectors)

InputDim == Len(Sent.vectors[1])

(* the request passes the dispatcher's own validation (lines 119-146) *)
Validated ==
    Handled /\ VectorsOk /\ (Sent.method = "umap_learning" => NumVectors >= 2)

CallMade(op) == \E i \in 1..Len(calls) : calls[i].op = op

CallRaised(op) == \E i \in 1..Len(calls) : calls[i].op = op /\ calls[i].raised

Succeeded == Handled /\ response.status = 200

Body == Get(response.body)

----------------------------------------------------------------------------
(* C1: with the serialization library unavailable and the UMAP and Ridge  *)
(* libraries available, a validated umap_learning request (whose fit does *)
(* not itself raise) fails with status 503 and returns no coordinates.    *)
C1_SerializerMissingIs503 ==
    (/\ Validated
     /\ Sent.method = "umap_learning"
     /\ UMAP_AVAILABLE /\ SKLEARN_AVAILABLE /\ ~CLOUDPICKLE_AVAILABLE
     /\ ~CallRaised("fit"))
    => (response.status = 503 /\ IsNone(response.body))

(* C2: every successful reduce response has one coordinate row per input  *)
(* vector, every row of length target_dimensions, which is also the       *)
(* reported output_dimensions.                                            *)
C2_ShapePreserved ==
    Succeeded =>
        /\ Len(Body.coordinates) = NumVectors
        /\ Body.output_dimensions = Sent.target_dimensions
        /\ \A i \in 1..Len(Body.coordinates) :
                Len(Body.coordinates[i]) = Sent.target_dimensions

(* C3: a umap_learning request with N >= 2 well-formed vectors and a      *)
(* supplied n_neighbors >= N is not answered 400; the dispatcher rewrites *)
(* n_neighbors to max(2, N-1), the reducer is constructed with that same  *)
(* value, and a successful response reports it in umap_parameters.        *)
C3_NeighborClamp ==
    (/\ Validated
     /\ Sent.method = "umap_learning"
     /\ ~IsNone(Sent.n_neighbors)
     /\ Get(Sent.n_neighbors) >= NumVectors)
    => /\ response.status # 400
       /\ Req.n_neighbors = Some(Max(2, NumVectors - 1))
       /\ ~IsNone(fitArgs) =>
            /\ Get(fitArgs).n_neighbors = Max(2, NumVectors - 1)
            /\ Get(fitArgs).n_neighbors = Get(Req.n_neighbors)
       /\ response.status = 200 =>
            Get(Body.umap_parameters).n_neighbors = Max(2, NumVectors - 1)

C3_Witness ==
    /\ Validated
    /\ Sent.method = "umap_learning"
    /\ NumVectors = 2
    /\ Sent.n_neighbors = Some(MaxNeighbors)
    /\ response.status = 200
    /\ Get(Body.umap_parameters).n_neighbors = 2

(* C4 as stated, on the requests that succeed: the n_neighbors a          *)
(* umap_learning fit is given satisfies 2 <= n_neighbors <= N-1 for every *)
(* N >= 2.                                                                *)
C4_NeighborsBelowSamples ==
    (Succeeded /\ Sent.method = "umap_learning" /\ ~IsNone(fitArgs))
    => (/\ 2 <= Get(fitArgs).n_neighbors
        /\ Get(fitArgs).n_neighbors <= NumVectors - 1)

(* C4 as amended: the n_neighbors a umap_learning fit is given satisfies  *)
(* 2 <= n_neighbors <= max(2, N-1): at most N-1 when N >= 3, exactly 2    *)
(* when N = 2.                                                            *)
C4_NeighborsWithinFloor ==
    (Handled /\ Sent.method = "umap_learning" /\ ~IsNone(fitArgs))
    => (/\ NumVectors >= 2
        /\ 2 <= Get(fitArgs).n_neighbors
        /\ Get(fitArgs).n_neighbors <= Max(2, NumVectors - 1))

C4_Witness ==
    /\ Handled
    /\ Sent.method = "umap_learning"
    /\ NumVectors = 2
    /\ IsNone(Sent.n_neighbors)
    /\ ~IsNone(fitArgs)
    /\ Get(fitArgs).n_neighbors = 2

(* C5: a request with method linear_transformation is answered 400 with   *)
(* no body, whatever its vectors, other parameters and the libraries'     *)
(* availability, and no library call of a reduction engine is made.       *)
C5_LinearDisabled ==
    (Handled /\ Sent.method = "linear_transformation")
    => (/\ response.status = 400
        /\ IsNone(response.body)
        /\ calls = <<>>
        /\ IsNone(fitArgs))

C5_Witness ==
    /\ Handled
    /\ Sent.method = "linear_transformation"
    /\ VectorsOk
    /\ ~IsNone(Sent.transformation_matrix)
    /\ ~IsNone(Sent.fitted_umap_model)
    /\ UMAP_AVAILABLE /\ SKLEARN_AVAILABLE /\ CLOUDPICKLE_AVAILABLE
    /\ response.status = 400
    /\ response.detail[1] = "Linear transformation is disabled. Use umap_learning or umap_transform instead."

(* C6: a validated umap_learning request is answered 503 when the UMAP or *)
(* the Ridge library is unavailable, a validated umap_transform request   *)
(* when the UMAP library is unavailable; no request succeeds while a      *)
(* library its method requires is unavailable.                            *)
C6_LibraryGating ==
    /\ (Validated /\ Sent.method = "umap_learning"
            /\ (~UMAP_AVAILABLE \/ ~SKLEARN_AVAILABLE))
        => response.status = 503
    /\ (Validated /\ Sent.method = "umap_transform" /\ ~UMAP_AVAILABLE)
        => response.status = 503
    /\ (Succeeded /\ Sent.method = "umap_learning")
        => (UMAP_AVAILABLE /\ SKLEARN_AVAILABLE /\ CLOUDPICKLE_AVAILABLE)
    /\ (Succeeded /\ Sent.method = "umap_transform")
        => (UMAP_AVAILABLE /\ CLOUDPICKLE_AVAILABLE)

C6_Witness ==
    /\ Validated
    /\ Sent.method = "umap_learning"
    /\ UMAP_AVAILABLE /\ ~SKLEARN_AVAILABLE /\ CLOUDPICKLE_AVAILABLE
    /\ response.status = 503
    /\ calls = <<>>

(* C7 as stated: a umap_transform request without fitted_umap_model       *)
(* (absent or empty) is answered 400 and nothing is deserialized or       *)
(* transformed.                                                           *)
C7_MissingModelIs400 ==
    (Handled /\ Sent.method = "umap_transform"
        /\ ~TruthyList(Sent.fitted_umap_model))
    => (/\ response.status = 400
        /\ ~CallMade("loads")
        /\ ~CallMade("transform"))

(* C7 as amended: such a request never reaches deserialization or         *)
(* transform and returns no coordinates; it is answered 400 when the UMAP *)
(* and serialization libraries are both available or its vectors are      *)
(* themselves invalid, and 503 otherwise.                                 *)
C7_MissingModelRejected ==
    (Handled /\ Sent.method = "umap_transform"
        /\ ~TruthyList(Sent.fitted_umap_model))
    => (/\ ~CallMade("loads")
        /\ ~CallMade("transform")
        /\ IsNone(response.body)
        /\ response.status =
            IF (UMAP_AVAILABLE /\ CLOUDPICKLE_AVAILABLE) \/ ~VectorsOk
            THEN 400 ELSE 503)

C7_Witness ==
    /\ Validated
    /\ Sent.method = "umap_transform"
    /\ Sent.fitted_umap_model = Some(<<>>)
    /\ UMAP_AVAILABLE /\ CLOUDPICKLE_AVAILABLE
    /\ response.status = 400
    /\ response.detail[1] = "fitted_umap_model is required for umap_transform method"

C9_Envelope ==
    Succeeded =>
        /\ Body.is_incremental <=> (Sent.method = "umap_transform")
        /\ Sent.method = "umap_learning" =>
            /\ ~IsNone(Body.transformation_matrix)
            /\ ~IsNone(Body.umap_parameters)
            /\ TruthyList(Body.fitted_umap_model)
            /\ ~IsNone(Body.model_metadata)
        /\ Sent.method = "umap_transform" =>
            /\ IsNone(Body.transformation_matrix)
            /\ IsNone(Body.umap_parameters)
            /\ IsNone(Body.fitted_umap_model)
            /\ IsNone(Body.model_metadata)

C9_Witness ==
    /\ Succeeded
    /\ Sent.method = "umap_transform"
    /\ Body.is_incremental
    /\ IsNone(Body.fitted_umap_model)

(* C10: when the UMAP fit, the deserialization of the model bytes or the  *)
(* model's transform raises (a feature-count mismatch included), the      *)
(* request is answered 500 with the underlying message and no coordinates.*)
C10_NumericalFailureIs500 ==
    /\ (Handled /\ CallRaised("fit"))
        => (/\ response.status = 500 /\ IsNone(response.body)
            /\ response.detail = <<"UMAP learning failed", "fit_transform raised">>)
    /\ (Handled /\ CallRaised("loads"))
        => (/\ response.status = 500 /\ IsNone(response.body)
            /\ response.detail = <<"UMAP transform failed", "loads raised">>)
    /\ (Handled /\ CallRaised("transform"))
        => (/\ response.status = 500 /\ IsNone(response.body)
            /\ response.detail = <<"UMAP transform failed", "transform raised">>)

C10_Witness ==
    /\ Handled
    /\ Sent.method = "umap_transform"
    /\ Sent.fitted_umap_model = Some(PickleHeader \o <<3, 1>>)
    /\ VectorsOk
    /\ InputDim = 2
    /\ CallRaised("transform")
    /\ response.status = 500

(* C11: a request with no vectors, with non-rectangular vectors, or with  *)
(* method umap_learning and fewer than 2 vectors is answered 400 with no  *)
(* body before any library call is made, whatever the libraries'          *)
(* availability.                                                          *)
C11_ValidationFirst ==
    (/\ Handled
     /\ \/ NumVectors = 0
        \/ ~IsRectangular(Sent.vectors)
        \/ (Sent.method = "umap_learning" /\ NumVectors < 2))
    => (/\ response.status = 400
        /\ IsNone(response.body)
        /\ calls = <<>>
        /\ IsNone(fitArgs))

C11_Witness ==
    /\ Handled
    /\ NumVectors = 2
    /\ ~IsRectangular(Sent.vectors)
    /\ Sent.method = "umap_transform"
    /\ ~UMAP_AVAILABLE /\ ~SKLEARN_AVAILABLE /\ ~CLOUDPICKLE_AVAILABLE
    /\ response.status = 400
    /\ response.detail = <<"Invalid vector format">>

(* C12: a reduce request whose method is none of umap_learning,           *)
(* umap_transform and linear_transformation is answered 400.              *)
C12_UnknownMethodIs400 ==
    (/\ pc = "done"
     /\ endpoint = "reduce"
     /\ ~IsNone(received)
     /\ Sent.method \notin Methods)
    => response.status = 400

(* C13: every request the handler is entered with ends in exactly one     *)
(* outcome: status 200 with a body holding one coordinate row per vector, *)
(* or a status in {400, 500, 503} with no body.                           *)
C13_OneOutcome ==
    Handled =>
        \/ /\ response.status = 200
           /\ ~IsNone(response.body)
           /\ Len(Body.coordinates) = NumVectors
           /\ NumVectors > 0
        \/ /\ response.status \in {400, 500, 503}
           /\ IsNone(response.body)

C13_Witness ==
    /\ Handled
    /\ Sent.method = "umap_learning"
    /\ CallRaised("dumps")
    /\ response.status = 500
    /\ IsNone(response.body)

----------------------------------------------------------------------------
(* Vocabulary of the properties on kept exchanges and concurrent clients *)

Memo == Get(memo)

MemoBody == Get(Memo.response.body)

(* which library calls were made and which of them raised *)
RaisedFlags(log) == [i \in 1..Len(log) |-> <<log[i].op, log[i].raised>>]

(* the byte string exchanged with the serializer in a call of the log *)
CallArg(log, op) == log[CHOOSE i \in 1..Len(log) : log[i].op = op].arg

(* the request in flight is the kept one over again *)
Repeated == Handled /\ ~IsNone(memo) /\ Sent = Memo.request

MatrixDone == pc = "done" /\ endpoint = "create-matrix"

HealthDone == pc = "done" /\ endpoint = "health"

NormalizeDone == pc = "done" /\ endpoint = "_normalize_coordinates"

(* the request sent again, meeting the same library failures, gets the *)
(* response it got before                                              *)
SameOutcome ==
    (Repeated /\ RaisedFlags(calls) = RaisedFlags(Memo.calls))
    => (response = Memo.response /\ calls = Memo.calls)

(* what the client got when it sends the kept model list back *)
SentBack ==
    /\ Handled
    /\ Sent.method = "umap_transform"
    /\ ~IsNone(memo)
    /\ Memo.request.method = "umap_learning"
    /\ Memo.response.status = 200
    /\ Sent.fitted_umap_model = MemoBody.fitted_umap_model
    /\ CallMade("loads")

(* the list of a successful umap_learning: one integer in 0..255 per *)
(* serialized byte, in order                                         *)
EmittedList ==
    (Succeeded /\ Sent.method = "umap_learning")
    => (/\ Len(Get(Body.fitted_umap_model)) = Len(CallArg(calls, "dumps"))
        /\ \A i \in 1..Len(Get(Body.fitted_umap_model)) :
              /\ Get(Body.fitted_umap_model)[i] \in 0..255
              /\ Get(Body.fitted_umap_model)[i]
                     = ByteValue(CallArg(calls, "dumps")[i]))

(* the coordinates computed from a request's own vectors, parameters *)
(* and model bytes                                                   *)
OwnCoordinates(req) ==
    IF req.method = "umap_learning"
    THEN UmapFitTransform(NpArray(req.vectors),
                          ReducerArgs(req, UmapParams(req, Len(req.vectors))))
    ELSE UmapTransform(Loads(BytesFromList(Get(req.fitted_umap_model))),
                       NpArray(req.vectors))

(* the array handed to _normalize_coordinates and the array it returned *)
NormIn == Sent.coordinates

NormOut == Body

(* axis j lies in [-R, R] with its minimum at -R and its maximum at R *)
NonZeroRangeRescaled(j) ==
    \A i \in 1..Len(NormIn) :
        /\ NormOut[i][j][2] > 0
        /\ NormOut[i][j][1] >= -Sent.target_range * NormOut[i][j][2]
        /\ NormOut[i][j][1] <= Sent.target_range * NormOut[i][j][2]
        /\ (NormIn[i][j] = ColumnMin(NormIn, j)
               => NormOut[i][j][1] = -Sent.target_range * NormOut[i][j][2])
        /\ (NormIn[i][j] = ColumnMax(NormIn, j)
               => NormOut[i][j][1] = Sent.target_range * NormOut[i][j][2])

(* C14: no request changes the library flags, and a request that is sent  *)
(* again after other requests were handled, and meets the same library    *)
(* failures, gets the response it got before.                             *)
C14_Stateless == [][libs' = libs]_vars /\ []SameOutcome

C14_Witness ==
    /\ Repeated
    /\ RaisedFlags(calls) = RaisedFlags(Memo.calls)
    /\ CallRaised("dumps")
    /\ response.status = 500
    /\ UMAP_AVAILABLE /\ SKLEARN_AVAILABLE /\ CLOUDPICKLE_AVAILABLE

C16_OwnResponse ==
    \A c \in Clients :
        (IF IsNone(outbox[c]) THEN FALSE ELSE Get(outbox[c]).status = 200)
        => (/\ Get(Get(outbox[c]).body).method = Get(inbox[c]).method
            /\ Get(Get(outbox[c]).body).n_samples = Len(Get(inbox[c]).vectors)
            /\ Get(Get(outbox[c]).body).input_dimensions
                   = Len(Get(inbox[c]).vectors[1])
            /\ Get(Get(outbox[c]).body).coordinates = OwnCoordinates(Get(inbox[c])))

C16_Witness ==
    /\ ~IsNone(outbox[1]) /\ ~IsNone(outbox[2])
    /\ Get(outbox[1]).status = 200 /\ Get(outbox[2]).status = 200
    /\ Get(inbox[1]).method = "umap_transform"
    /\ Get(inbox[2]).method = "umap_learning"
    /\ Len(Get(inbox[1]).vectors) # Len(Get(inbox[2]).vectors)

(* C17: the fitted_umap_model list of a successful umap_learning holds    *)
(* one integer in 0..255 per serialized byte, in order; and when the list *)
(* a client kept is sent back in a umap_transform request, the bytes      *)
(* handed to the deserializer are the bytes the serializer produced.      *)
C17_RoundTrip ==
    /\ EmittedList
    /\ SentBack => CallArg(calls, "loads") = CallArg(Memo.calls, "dumps")

C17_Witness ==
    /\ SentBack
    /\ response.status = 200
    /\ Len(CallArg(calls, "loads")) = 3

(* C18: create_matrix with matrix_type rotation is answered 400, with no  *)
(* matrix, whenever the axis does not have exactly 3 elements or has zero *)
(* magnitude.                                                             *)
C18_BadAxisIs400 ==
    (/\ MatrixDone
     /\ Sent.matrix_type = "rotation"
     /\ (IF NotTriple(Sent.rotation_axis) THEN TRUE
         ELSE Dot(Get(Sent.rotation_axis), Get(Sent.rotation_axis)) = 0))
    => (response.status = 400 /\ IsNone(response.body))

(* C19: normalize_coordinates(C, R) maps every axis of non-zero range     *)
(* into [-R, R], its minimum to -R and its maximum to R, and leaves the   *)
(* values of an axis of zero range unchanged.                             *)
C19_ZeroRangeUnchanged ==
    NormalizeDone =>
        \A j \in 1..Len(NormIn[1]) :
            IF ColumnMax(NormIn, j) # ColumnMin(NormIn, j)
            THEN NonZeroRangeRescaled(j)
            ELSE \A i \in 1..Len(NormIn) :
                    NormOut[i][j][1] = NormIn[i][j] * NormOut[i][j][2]

(* C19 as the code has it: an axis of non-zero range is rescaled so, and *)
(* the values of an axis of zero range all map to -R.                   *)
C19_ZeroRangeToMinusR ==
    NormalizeDone =>
        /\ Len(NormOut) = Len(NormIn)
        /\ \A j \in 1..Len(NormIn[1]) :
            IF ColumnMax(NormIn, j) # ColumnMin(NormIn, j)
            THEN NonZeroRangeRescaled(j)
            ELSE \A i \in 1..Len(NormIn) :
                    /\ NormOut[i][j][2] > 0
                    /\ NormOut[i][j][1] = -Sent.target_range * NormOut[i][j][2]

C19_Witness ==
    /\ NormalizeDone
    /\ Len(NormIn) = 3
    /\ ColumnMax(NormIn, 1) = ColumnMin(NormIn, 1)
    /\ ColumnMax(NormIn, 2) - ColumnMin(NormIn, 2) = 2
    /\ Sent.target_range = DefaultTargetRange
    /\ NormOut[1][1] = Rat(-DefaultTargetRange, 1)

(* C20: health() reports status "healthy", the version string, and one    *)
(* boolean for each of the UMAP, linear-regression and serialization      *)
(* libraries, each equal to the library's availability.                   *)
C20_ThreeFlags ==
    HealthDone =>
        /\ Body.status = "healthy"
        /\ Cardinality(DOMAIN Body \ {"status", "version"}) = 3
        /\ Body.umap_available = UMAP_AVAILABLE
        /\ Body.sklearn_available = SKLEARN_AVAILABLE

(* C20 as the code has it: two booleans, for the UMAP and the             *)
(* linear-regression library; the serialization library is not reported.  *)
C20_TwoFlags ==
    HealthDone =>
        /\ response.status = 200
        /\ DOMAIN Body = {"status", "umap_available", "sklearn_available", "version"}
        /\ Body.status = "healthy"
        /\ Body.umap_available = UMAP_AVAILABLE
        /\ Body.sklearn_available = SKLEARN_AVAILABLE
        /\ Body.version = "1.0.0"

C20_Witness ==
    /\ HealthDone
    /\ Body.umap_available /\ ~Body.sklearn_available
    /\ ~CLOUDPICKLE_AVAILABLE

----------------------------------------------------------------------------
(* Vocabulary of the properties on matrices *)

(* 4-vectors a matrix is applied to *)
Vec4Inputs ==
    { <<x, y, z, w>> : x \in -1..MaxCoord, y \in -1..MaxCoord,
                       z \in -1..MaxCoord, w \in -1..MaxCoord }

IsFourByFour(m) == Len(m) = 4 /\ \A i \in 1..4 : Len(m[i]) = 4

NoNaN(m) == \A i \in 1..4 : \A j \in 1..4 : m[i][j][2] # 0

(* the fraction q equals the integer k *)
RatIs(q, k) == q[2] # 0 /\ q[1] = k * q[2]

(* row i of the standard product of a 4x4 matrix and a 4-vector, as one *)
(* fraction over the product of the row's denominators                  *)
RowTimes(m, v, i) ==
    Rat(m[i][1][1] * v[1] * m[i][2][2] * m[i][3][2] * m[i][4][2]
          + m[i][2][1] * v[2] * m[i][1][2] * m[i][3][2] * m[i][4][2]
          + m[i][3][1] * v[3] * m[i][1][2] * m[i][2][2] * m[i][4][2]
          + m[i][4][1] * v[4] * m[i][1][2] * m[i][2][2] * m[i][3][2],
        m[i][1][2] * m[i][2][2] * m[i][3][2] * m[i][4][2])

(* the product of m and v is the integer vector u *)
Maps(m, v, u) == \A i \in 1..4 : RatIs(RowTimes(m, v, i), u[i])

MatrixMade(type) ==
    MatrixDone /\ Sent.matrix_type = type /\ response.status = 200

(* C21: create_matrix with matrix_type identity always returns the 4x4    *)
(* matrix with 1 on the diagonal and 0 elsewhere and an empty parameters  *)
(* record, whatever other fields the request carries; the matrix maps     *)
(* every 4-vector to itself.                                              *)
C21_Identity ==
    (MatrixDone /\ Sent.matrix_type = "identity")
    => (/\ response.status = 200
        /\ Body.matrix_type = "identity"
        /\ Body.parameters = NoParameters
        /\ IsFourByFour(Body.matrix)
        /\ \A i \in 1..4 : \A j \in 1..4 :
              RatIs(Body.matrix[i][j], IF i = j THEN 1 ELSE 0)
        /\ \A v \in Vec4Inputs : Maps(Body.matrix, v, v))

C21_Witness ==
    /\ MatrixMade("identity")
    /\ Sent.translation = Some(<<1, 1, 1>>)
    /\ Sent.scale_factors = Some(<<2, 2, 2>>)
    /\ Body.parameters = NoParameters

(* C22: create_matrix with matrix_type translation and t = [tx,ty,tz]     *)
(* returns the identity whose last column is (tx,ty,tz,1); it maps every  *)
(* point (x,y,z,1) to (x+tx, y+ty, z+tz, 1), and the parameters echo t.   *)
C22_Translation ==
    (/\ MatrixDone
     /\ Sent.matrix_type = "translation"
     /\ ~NotTriple(Sent.translation))
    => (/\ response.status = 200
        /\ Body.parameters = [NoParameters EXCEPT !.translation = Sent.translation]
        /\ IsFourByFour(Body.matrix)
        /\ \A i \in 1..4 : \A j \in 1..4 :
              RatIs(Body.matrix[i][j],
                    IF j = 4 /\ i <= 3 THEN Get(Sent.translation)[i]
                    ELSE IF i = j THEN 1 ELSE 0)
        /\ \A v \in Vec4Inputs :
              v[4] = 1 =>
                  Maps(Body.matrix, v,
                       <<v[1] + Get(Sent.translation)[1],
                         v[2] + Get(Sent.translation)[2],
                         v[3] + Get(Sent.translation)[3], 1>>))

C22_Witness ==
    /\ MatrixMade("translation")
    /\ Sent.translation = Some(<<2, -1, 1>>)
    /\ Maps(Body.matrix, <<0, 0, 0, 1>>, <<2, -1, 1, 1>>)

(* C23: create_matrix with matrix_type scale and s = [sx,sy,sz] returns   *)
(* diag(sx,sy,sz,1); it maps every (x,y,z,w) to (sx x, sy y, sz z, w).    *)
C23_Scale ==
    (/\ MatrixDone
     /\ Sent.matrix_type = "scale"
     /\ ~NotTriple(Sent.scale_factors))
    => (/\ response.status = 200
        /\ IsFourByFour(Body.matrix)
        /\ \A i \in 1..4 : \A j \in 1..4 :
              RatIs(Body.matrix[i][j],
                    IF i # j THEN 0
                    ELSE IF i <= 3 THEN Get(Sent.scale_factors)[i] ELSE 1)
        /\ \A v \in Vec4Inputs :
              Maps(Body.matrix, v,
                   <<v[1] * Get(Sent.scale_factors)[1],
                     v[2] * Get(Sent.scale_factors)[2],
                     v[3] * Get(Sent.scale_factors)[3], v[4]>>))

C23_Witness ==
    /\ MatrixMade("scale")
    /\ Sent.scale_factors = Some(<<2, 0, -1>>)
    /\ Maps(Body.matrix, <<1, 1, 1, 2>>, <<2, 0, -1, 2>>)

(* a rotation request the handler's checks let through, about an axis *)
(* that is not the zero vector                                        *)
RotationAsked ==
    /\ MatrixDone
    /\ Sent.matrix_type = "rotation"
    /\ ~NotTriple(Sent.rotation_axis)
    /\ ~IsNone(Sent.rotation_angle)
    /\ Dot(Get(Sent.rotation_axis), Get(Sent.rotation_axis)) # 0

(* the 3x3 block of m has one positive denominator, and over it the *)
(* image of v has the squared length of v                           *)
PreservesNorm(m, v) ==
    /\ m[1][1][2] > 0
    /\ \A i \in 1..3 : \A j \in 1..3 : m[i][j][2] = m[1][1][2]
    /\ SumSeq([i \in 1..3 |->
                 (m[i][1][1] * v[1] + m[i][2][1] * v[2] + m[i][3][1] * v[3])
               * (m[i][1][1] * v[1] + m[i][2][1] * v[2] + m[i][3][1] * v[3])])
         = m[1][1][2] * m[1][1][2] * Dot(v, v)

(* the 3x3 block of m leaves the vector a where it is *)
FixesAxis(m, a) ==
    \A i \in 1..3 :
        m[i][1][1] * a[1] + m[i][2][1] * a[2] + m[i][3][1] * a[3]
            = m[i][1][2] * a[i]

(* C24: the rotation matrix for a non-zero axis and an angle is the        *)
(* rotation about the normalized axis embedded in a 4x4 matrix whose       *)
(* fourth row and column are (0,0,0,1): it keeps the axis, preserves the   *)
(* norm of every 3-vector and leaves w unchanged; for axis [0,0,1] and a   *)
(* quarter turn it maps [1,0,0,1] to [0,1,0,1].                            *)
C24_Rotation ==
    RotationAsked
    => (/\ response.status = 200
        /\ IsFourByFour(Body.matrix)
        /\ NoNaN(Body.matrix)
        /\ \A k \in 1..4 :
              /\ RatIs(Body.matrix[4][k], IF k = 4 THEN 1 ELSE 0)
              /\ RatIs(Body.matrix[k][4], IF k = 4 THEN 1 ELSE 0)
        /\ FixesAxis(Body.matrix, Get(Sent.rotation_axis))
        /\ \A v \in Vec4Inputs :
              /\ PreservesNorm(Body.matrix, <<v[1], v[2], v[3]>>)
              /\ RatIs(RowTimes(Body.matrix, v, 4), v[4])
        /\ ((Sent.rotation_axis = Some(<<0, 0, 1>>) /\ Sent.rotation_angle = Some(1))
               => Maps(Body.matrix, <<1, 0, 0, 1>>, <<0, 1, 0, 1>>)))

C24_Witness ==
    /\ RotationAsked
    /\ response.status = 200
    /\ Sent.rotation_axis = Some(<<0, 0, 1>>)
    /\ Sent.rotation_angle = Some(1)
    /\ Maps(Body.matrix, <<1, 0, 0, 1>>, <<0, 1, 0, 1>>)

(* a rotation about an axis that is not a coordinate axis *)
C24_WitnessOblique ==
    /\ RotationAsked
    /\ Sent.rotation_axis = Some(<<1, 2, 2>>)
    /\ Sent.rotation_angle = Some(1)
    /\ PreservesNorm(Body.matrix, <<1, 0, 0>>)

(* a umap_learning request that reached the fit *)
Fitted == Handled /\ Sent.method = "umap_learning" /\ ~IsNone(fitArgs)

(* the n_neighbors the fit was given, also the one reported on success *)
NeighborsAre(k) ==
    /\ Get(fitArgs).n_neighbors = k
    /\ (response.status = 200 => Get(Body.umap_parameters).n_neighbors = k)

(* C25: for a umap_learning request with N >= 3 vectors, a supplied        *)
(* n_neighbors with 2 <= n_neighbors < N is used for the fit and reported  *)
(* in umap_parameters unchanged; an absent n_neighbors (null, or left out  *)
(* and so the default 15) is treated as 15 and clamped: min(15, N-1).      *)
C25_NeighborsUsed ==
    (Fitted /\ NumVectors >= 3)
    => (/\ (/\ ~IsNone(Sent.n_neighbors)
            /\ 2 <= Get(Sent.n_neighbors)
            /\ Get(Sent.n_neighbors) < NumVectors)
           => NeighborsAre(Get(Sent.n_neighbors))
        /\ (Sent.n_neighbors \in {None, Some(DefaultNeighbors)})
           => NeighborsAre(Min(DefaultNeighbors, NumVectors - 1)))

(* an absent n_neighbors with more than 16 vectors: 15 is used *)
C25_Witness ==
    /\ Fitted
    /\ response.status = 200
    /\ NumVectors > DefaultNeighbors + 1
    /\ IsNone(Sent.n_neighbors)
    /\ NeighborsAre(DefaultNeighbors)

(* an absent n_neighbors with few vectors: N-1 is used *)
C25_WitnessClamped ==
    /\ Fitted
    /\ response.status = 200
    /\ NumVectors = 4
    /\ Sent.n_neighbors = Some(DefaultNeighbors)
    /\ NeighborsAre(3)

(* a supplied n_neighbors below N *)
C25_WitnessSupplied ==
    /\ Fitted
    /\ response.status = 200
    /\ NumVectors = 4
    /\ Sent.n_neighbors = Some(2)
    /\ NeighborsAre(2)

(* the value the fit was given and, on success, the response reports *)
ParamIs(field, k) ==
    /\ Get(fitArgs)[field] = k
    /\ (response.status = 200 => Get(Body.umap_parameters)[field] = k)

(* C26: umap_parameters record what the fit used: every random_state       *)
(* supplied is used and reported exactly, and 42 only when it is absent;   *)
(* likewise min_dist and spread are the supplied values and 0.8 and 3.0    *)
(* only when absent; the metric is always cosine.                          *)
C26_ParamsAsSupplied ==
    Fitted
    => (/\ ParamIs("random_state",
                   IF IsNone(Sent.random_state) THEN DefaultRandomState
                   ELSE Get(Sent.random_state))
        /\ ParamIs("min_dist",
                   IF IsNone(Sent.min_dist) THEN DefaultMinDist
                   ELSE Get(Sent.min_dist))
        /\ ParamIs("spread",
                   IF IsNone(Sent.spread) THEN DefaultSpread
                   ELSE Get(Sent.spread))
        /\ ParamIs("metric", "cosine"))

(* C27: in every successful umap_learning response model_metadata agrees   *)
(* with the envelope: training_node_count = n_samples, embedding_dimension *)
(* = input_dimensions, target_dimensions = output_dimensions, and          *)
(* model_size_bytes is the length of the returned fitted_umap_model list.  *)
C27_MetadataConsistent ==
    (Succeeded /\ Sent.method = "umap_learning")
    => (/\ ~IsNone(Body.model_metadata)
        /\ ~IsNone(Body.fitted_umap_model)
        /\ Get(Body.model_metadata).training_node_count = Body.n_samples
        /\ Get(Body.model_metadata).embedding_dimension = Body.input_dimensions
        /\ Get(Body.model_metadata).target_dimensions = Body.output_dimensions
        /\ Get(Body.model_metadata).model_size_bytes
               = Len(Get(Body.fitted_umap_model)))

C27_Witness ==
    /\ Succeeded
    /\ Sent.method = "umap_learning"
    /\ NumVectors = 3
    /\ InputDim = 2
    /\ Sent.target_dimensions = 3
    /\ Get(Body.model_metadata).training_node_count = 3
    /\ Get(Body.model_metadata).embedding_dimension = 2
    /\ Get(Body.model_metadata).target_dimensions = 3
    /\ Get(Body.model_metadata).model_size_bytes = Len(Get(Body.fitted_umap_model))

(* the request after the handler equals the one received but for n_neighbors *)
SameButNeighbors ==
    /\ Req.vectors = Sent.vectors
    /\ Req.method = Sent.method
    /\ Req.target_dimensions = Sent.target_dimensions
    /\ Req.min_dist = Sent.min_dist
    /\ Req.spread = Sent.spread
    /\ Req.random_state = Sent.random_state
    /\ Req.fitted_umap_model = Sent.fitted_umap_model

(* C28: the dispatcher's only adjustment is the neighbor clamp: it         *)
(* rewrites n_neighbors only when the method is umap_learning and          *)
(* n_neighbors >= N, and in every reduce request it leaves vectors,        *)
(* method, target_dimensions, min_dist, spread, random_state and           *)
(* fitted_umap_model as received (for umap_transform n_neighbors too).     *)
C28_OnlyNeighborsRewritten ==
    Handled
    => (/\ SameButNeighbors
        /\ (Req.n_neighbors # Sent.n_neighbors
               => (/\ Sent.method = "umap_learning"
                   /\ ~IsNone(Sent.n_neighbors)
                   /\ Get(Sent.n_neighbors) >= NumVectors))
        /\ (Sent.method = "umap_transform" => Req = Sent))

(* a transform request with n_neighbors above N, left as received *)
C28_Witness ==
    /\ Succeeded
    /\ Sent.method = "umap_transform"
    /\ Sent.n_neighbors = Some(DefaultNeighbors)
    /\ NumVectors = 2
    /\ Req = Sent

(* a learning request whose n_neighbors was rewritten, and nothing else *)
C28_WitnessRewritten ==
    /\ Succeeded
    /\ Sent.method = "umap_learning"
    /\ Sent.n_neighbors = Some(MaxNeighbors)
    /\ NumVectors = 3
    /\ Req = [Sent EXCEPT !.n_neighbors = Some(2)]

----------------------------------------------------------------------------
(* Vocabulary of the properties on the backend *)

CountKind(log, kind) == Cardinality({ i \in 1..Len(log) : log[i].kind = kind })

(* a call of call_llm_provider with max_retries >= 1 that was tracked *)
Tracked == task.tracked /\ task.max_retries >= 1

(* the calls made so far are passes on the provider that was current at  *)
(* the call, no more than max_retries of them, none after a success      *)
PrimaryCallsBounded ==
    /\ CountKind(task.log, "attempt") <= task.max_retries
    /\ \A i \in 1..Len(task.log) :
          /\ task.log[i].kind \in {"attempt", "fallback"}
          /\ (task.log[i].kind = "attempt" => task.log[i].target = task.provider_name)
          /\ (i < Len(task.log) => ~task.log[i].ok)

(* at most one fallback call, to OpenRouter, after max_retries failed    *)
(* passes, with another provider current and OpenRouter enabled          *)
FallbackOnlyLast ==
    /\ CountKind(task.log, "fallback") <= 1
    /\ \A i \in 1..Len(task.log) :
          task.log[i].kind = "fallback"
          => (/\ i = task.max_retries + 1
              /\ task.log[i].target = OPENROUTER
              /\ \A j \in 1..(i - 1) :
                    task.log[j].kind = "attempt" /\ ~task.log[j].ok
              /\ task.provider_name # OPENROUTER
              /\ providers[OPENROUTER].enabled)

StatusIs(reqs, t, status) ==
    IF t.request_id \in DOMAIN reqs
    THEN reqs[t.request_id].status = status
    ELSE FALSE

(* the step in which the call returns or raises leaves the status named *)
ExitStatus ==
    (task' # task /\ task'.tracked /\ task'.max_retries >= 1)
    => (/\ (task'.pc = "returned" => StatusIs(active_requests', task', "completed"))
        /\ (task'.pc = "raised" => StatusIs(active_requests', task', "failed")))

(* C29: for max_retries >= 1, call_llm_provider calls the current provider *)
(* at most max_retries times, stopping at the first success; it makes at   *)
(* most one further fallback call to OpenRouter, only after the last       *)
(* attempt failed and only when the current provider is not OpenRouter and *)
(* OpenRouter is enabled; when it returns a result the tracked request's   *)
(* status is 'completed', when it raises the tracked status is 'failed'.   *)
C29_RetryThenFallback ==
    /\ [](Tracked => (PrimaryCallsBounded /\ FallbackOnlyLast))
    /\ [][ExitStatus]_vars

(* all passes on Ollama failed and the fallback call returned *)
C29_Witness ==
    /\ Tracked
    /\ task.pc = "returned"
    /\ task.provider_name = OLLAMA
    /\ task.max_retries = 2
    /\ Len(task.log) = 3
    /\ task.log[3] = CallTo(OPENROUTER, "fallback", TRUE)
    /\ StatusIs(active_requests, task, "completed")

(* all passes and the fallback call failed *)
C29_WitnessRaised ==
    /\ Tracked
    /\ task.pc = "raised"
    /\ task.max_retries = MaxRetries
    /\ Len(task.log) = MaxRetries + 1
    /\ StatusIs(active_requests, task, "failed")

(* the step made a call of set_current_provider: it returned True and  *)
(* made the name current exactly when the name was registered and      *)
(* enabled, and otherwise left the registry as it was                  *)
SetCallFaithful ==
    ~IsNone(setCall')
    => (/\ Get(setCall').ret
             = (IF Get(setCall').name \in DOMAIN providers
                THEN providers[Get(setCall').name].enabled ELSE FALSE)
        /\ current_provider' = (IF Get(setCall').ret
                                THEN Some(Get(setCall').name)
                                ELSE current_provider)
        /\ providers' = providers)

(* C30: set_current_provider(name) sets current_provider to name and       *)
(* returns True only when name is registered and its config is enabled at  *)
(* the time of the call; otherwise it returns False and leaves             *)
(* current_provider and the providers map unchanged.                       *)
C30_SetCurrentProvider == [][SetCallFaithful]_vars

(* a registered but disabled name was refused *)
C30_Witness ==
    /\ setCall = Some([name |-> OPENROUTER, ret |-> FALSE])
    /\ ~providers[OPENROUTER].enabled
    /\ current_provider = None

(* an unregistered name was refused *)
C30_WitnessUnregistered ==
    /\ setCall = Some([name |-> "cloud", ret |-> FALSE])
    /\ current_provider = None

(* a registered and enabled name was made current over another *)
C30_WitnessSwitched ==
    /\ setCall = Some([name |-> OLLAMA, ret |-> TRUE])
    /\ current_provider = Some(OLLAMA)
    /\ task.provider_name = OPENROUTER

====
